---------------------------- MODULE Spec2Model ----------------------------
(***************************************************************************)
(* A model of the BookStack maintenance scripts under setup/:              *)
(*   organize-inbox.py    the page-id based reconciliation run             *)
(*                        (ensure_chapter, move_page, main's two loops)    *)
(*   organize-library.py  the holding book, the empty-chapter sweep and    *)
(*                        the junk-page detector                           *)
(* The remote BookStack instance is part of the state: every api.get /     *)
(* api.post / api.put / api.delete of the scripts reads or writes it, and  *)
(* any of them may raise (BookStackApi.request raises RuntimeError on a    *)
(* non-success response).                                                  *)
(***************************************************************************)
EXTENDS Integers, Sequences, FiniteSets, TLC

\* ------------------------------------------------------------------ bounds
\* Pages in the assignment catalog of organize-inbox (targets).
NPages == 2
\* Runs of seed-empty-books, and remote calls of it that fail.
MaxSeedRuns == 2
MaxSeedFailures == 1
\* Runs of a script's main() in one behaviour.
MaxRuns == 2
\* Remote calls that fail (raise) in one behaviour.
MaxFailures == 1

\* ------------------------------------------------- organize-inbox: data
HELP_BOOK_ID == 101
CALC_BOOK_ID == 746
CADBIM_AUTOCH_ID == 936
CADBIM_NAVIS_ID == 951

\* ChapterSpec(book_id, name, description); the description is only sent
\* in the create request and is left out.
ChapterSpec(b, n) == [kind |-> "spec", book_id |-> b, name |-> n]
ch_help_master == ChapterSpec(HELP_BOOK_ID, "0. Master Index")
ch_help_getting_started == ChapterSpec(HELP_BOOK_ID, "1. Getting Started")
ch_calc_templates == ChapterSpec(CALC_BOOK_ID, "0. Templates")

\* Target = Union[int, ChapterSpec]
ExplicitTarget(id) == [kind |-> "id", id |-> id]
Target == {ExplicitTarget(CADBIM_AUTOCH_ID),
           ch_help_master, ch_help_getting_started, ch_calc_templates}

Pages == 1..NPages

\* A remote chapter as it appears in a book's "contents".
Ch(id, b, n) == [id |-> id, book_id |-> b, name |-> n]

\* Remote chapter lists a run may start from, in contents order: none, the
\* named chapter present, the name present twice (the later id first), and
\* the same name in two books.
InitialChapters ==
    { <<>>,
      <<Ch(CADBIM_AUTOCH_ID, HELP_BOOK_ID, "0. Master Index")>>,
      <<Ch(CADBIM_NAVIS_ID, HELP_BOOK_ID, "0. Master Index"),
        Ch(CADBIM_AUTOCH_ID, HELP_BOOK_ID, "0. Master Index")>>,
      <<Ch(CADBIM_AUTOCH_ID, HELP_BOOK_ID, "1. Getting Started"),
        Ch(CADBIM_NAVIS_ID, CALC_BOOK_ID, "0. Master Index")>> }

VARIABLES
    \* remote state
    chapters,          \* sequence of Ch records, in contents order
    page_chapter,      \* page id -> chapter_id (0: directly in a book)
    \* the catalog built by main (lines 343-501)
    targets,           \* page id -> Target
    order,             \* the insertion order of targets (targets.items())
    \* one run of main
    pc, apply, run, idx,
    chapter_cache,     \* Dict[int, Dict[str, int]]
    resolved_targets,  \* Dict[int, int]
    moves, moved, skipped,
    report,            \* what out_path.write_text wrote, or NoReport
    \* observation
    failures,          \* remote calls that failed so far
    requests,          \* the remote requests of this run, in order
    ensure_calls,      \* the ensure_chapter calls of this run, in order
    move_calls,        \* page id -> the last two move_page calls for it
    last_call,         \* the latest move_page call of this run, in full
    at_start,          \* the remote state when this run started
    prev,              \* how the previous run went
    \* organize-library: remote state
    shelves,           \* sequence of [id, name, books], in listing order
    books,             \* sequence of [id, name], in listing order
    lib_pages,         \* page id -> the page as GET /pages/{id} returns it
    \* organize-library: one run of main
    holding_book_id,   \* Optional[int], 0 for None
    sweep,             \* the locals of move_empty_chapters
    junk,              \* the locals of delete_junk_pages
    \* organize-library: observation
    attempts,          \* the relocations this run's sweep attempted
    classified,        \* page id -> is_effectively_empty_page, this run
    error,             \* where the exception that ended this run arose
    \* the classifier on its own
    arg_title,         \* the title given to best_chapter_for_page
    arg_candidates,    \* the chapters given to it
    result,            \* (chapter_id, reason) as returned, or NoResult
    \* one BookStackApi instance
    script,            \* the script whose BookStackApi this is
    api_call,          \* idle, running, returned or raised; calls so far
    attempt,           \* the loop variable of request
    last_resp,         \* the latest HTTP response of this call
    slept,             \* what request slept after that response
    outcome,           \* what the call returned or raised
    elapsed,           \* ticks since the latest HTTP request was issued
    last_gap,          \* ticks between the latest two HTTP requests
    \* organize-library: move_direct_pages
    direct,            \* the locals of move_direct_pages
    \* seed-empty-books: one run of main
    seed,              \* the locals of main
    \* organize-library: shelve_books
    shelving           \* the locals of shelve_books

vars == <<chapters, page_chapter, targets, order, pc, apply, run, idx,
          chapter_cache, resolved_targets, moves, moved, skipped, report,
          failures, requests, ensure_calls, move_calls, last_call,
          at_start, prev, shelves, books, lib_pages, holding_book_id,
          sweep, junk, attempts, classified, error, arg_title,
          arg_candidates, result, script, api_call, attempt, last_resp,
          slept,
          outcome, elapsed, last_gap, direct, seed, shelving>>

remoteVars == <<chapters, page_chapter>>
catalogVars == <<targets, order>>
libraryVars == <<shelves, books, lib_pages, holding_book_id, sweep, junk,
                 attempts, classified, error>>
inboxVars == <<page_chapter, targets, order, idx, chapter_cache,
               resolved_targets, moves, moved, skipped, ensure_calls,
               move_calls, last_call, prev>>
classifyVars == <<arg_title, arg_candidates, result>>
sharedVars == <<chapters, pc, apply, run, report, failures, requests,
                at_start>>
\* What the actions of each script leave alone.
clientVars == <<script, api_call, attempt, last_resp, slept, outcome,
                elapsed, last_gap>>
directVars == <<direct>>
seedVars == <<seed>>
shelveVars == <<shelving>>
outsideInbox == <<libraryVars, classifyVars, clientVars, directVars, seedVars,
                  shelveVars>>
outsideLibrary == <<inboxVars, classifyVars, clientVars, directVars,
                    seedVars, shelveVars>>

\* ------------------------------------------------------------- helpers
Range(s) == {s[k] : k \in 1..Len(s)}
Max(S) == CHOOSE x \in S : \A y \in S : y <= x
Min(S) == CHOOSE x \in S : \A y \in S : x <= y
EmptyMap == [x \in {} |-> 0]
NoReport == [written |-> FALSE]
NoError == [phase |-> "none"]
NoSweep == [book_ids |-> <<>>, empty_chapters |-> <<>>, moved |-> 0,
            renamed |-> 0, failures |-> <<>>]
NoJunk == [names |-> <<>>, pids |-> <<>>, deleted |-> <<>>, kept |-> <<>>]

NoResult == [returned |-> FALSE, calls |-> 0]

\* The classifier is not being run on its own.
ClassifyUnused ==
    /\ arg_title = <<>>
    /\ arg_candidates = <<>>
    /\ result = NoResult

NoResponse == [status |-> 0]
NoSleep == [seconds |-> 0, why |-> "none"]
NoOutcome == [kind |-> "none"]

\* No call of BookStackApi.request is followed attempt by attempt.
ClientUnused ==
    /\ script = "none"
    /\ api_call = [state |-> "idle", n |-> 0]
    /\ attempt = 0
    /\ last_resp = NoResponse
    /\ slept = NoSleep
    /\ outcome = NoOutcome
    /\ elapsed = 0
    /\ last_gap = 0

NoDirect == [book_ids |-> <<>>, pages |-> <<>>, chapters |-> <<>>,
             contents |-> <<>>, inbox_id |-> 0, moved |-> 0, assigned |-> 0,
             inboxed |-> 0, inbox_created |-> 0, samples |-> <<>>,
             last |-> [called |-> FALSE]]
\* move_direct_pages is not running.
DirectUnused == direct = NoDirect

NoSeed == [books |-> <<>>, plan |-> <<>>, ch_id |-> 0, pages |-> <<>>,
           pages_created |-> 0, last |-> [called |-> FALSE],
           failed_before |-> 0,
           prev |-> [ended |-> FALSE, apply |-> FALSE, failed |-> FALSE]]
\* seed-empty-books is not running.
SeedUnused == seed = NoSeed

NoShelving == [unshelved |-> <<>>, shelf_name_to_id |-> EmptyMap,
               actions |-> <<>>]
\* shelve_books is not running.
ShelveUnused == shelving = NoShelving

\* organize-inbox does not touch what organize-library keeps.
LibraryUnused ==
    /\ shelves = <<>>
    /\ books = <<>>
    /\ lib_pages = EmptyMap
    /\ holding_book_id = 0
    /\ sweep = NoSweep
    /\ junk = NoJunk
    /\ attempts = <<>>
    /\ classified = EmptyMap
    /\ error = NoError

Request(method, path, id, body) ==
    [method |-> method, path |-> path, id |-> id, body |-> body]
NoBody == [none |-> TRUE]
IsWrite(r) == r.method \in {"POST", "PUT", "DELETE"}

\* The id the server gives a newly created chapter.
NewChapterId(chs) ==
    IF chs = <<>> THEN CADBIM_AUTOCH_ID
    ELSE Max({chs[k].id : k \in 1..Len(chs)}) + 1

\* ----------------------------------------------- organize-inbox: mutants
\* get_book_chapters with the "type" test inverted: no chapter is kept.
get_book_chapters_InvertedTypeTest(chs, book_id) == EmptyMap

\* ensure_chapter without line 163: the looked-up children are not cached.
CacheStore_NotStored(cache, book_id, looked) == cache

\* ensure_chapter without line 177: the created id is not memoized.
Memoize_Forgotten(looked, name, ch_id) == looked

\* move_page comparing the raw chapter_id with the target without int():
\* a string never equals an int.
SameChapter_TypeMismatch(current_ch_id, target_chapter_id) == FALSE

\* move_page with line 185 always taken: every page counts as in place.
SameChapter_AlwaysEqual(current_ch_id, target_chapter_id) == TRUE

\* move_page sending a body the server ignores: the page stays put.
PutPageChapter_Ignored(pch, page_id, target_chapter_id) == pch

\* main without lines 522-525: the sentinel goes on to move_page.
IsSentinel_Never(ch_id) == FALSE

\* get_book_chapters over the chapters of every book.
get_book_chapters_AnyBook(chs, book_id) ==
    LET names == {chs[k].name : k \in 1..Len(chs)}
    IN  [n \in names |-> chs[Min({k \in 1..Len(chs) : chs[k].name = n})].id]

\* get_book_chapters with "out[name] = int(c['id'])": the last chapter of a
\* name is kept.
get_book_chapters_LastWins(chs, book_id) ==
    LET mine == {k \in 1..Len(chs) : chs[k].book_id = book_id}
        names == {chs[k].name : k \in mine}
    IN  [n \in names |-> chs[Max({k \in mine : chs[k].name = n})].id]

\* get_book_chapters reading only the first chapter of the book's contents.
get_book_chapters_FirstOnly(chs, book_id) ==
    LET mine == {k \in 1..Len(chs) : chs[k].book_id = book_id}
    IN  IF mine = {} THEN EmptyMap
        ELSE chs[Min(mine)].name :> chs[Min(mine)].id

\* ------------------------------------------- organize-inbox: operations
\* get_book_chapters: GET /books/{id}; name -> id of the book's chapters,
\* the first in contents order kept when a name occurs twice (setdefault).
\* Chapter names of the model are never empty, so the "if not name" skip
\* of the code never applies.
get_book_chapters(chs, book_id) ==
    LET mine == {k \in 1..Len(chs) : chs[k].book_id = book_id}
        names == {chs[k].name : k \in mine}
    IN  [n \in names |-> chs[Min({k \in mine : chs[k].name = n})].id]

\* Line 160-161: the scope's children are known to this run.
CacheHit(cache, book_id) == book_id \in DOMAIN cache

\* Line 163: cache[spec.book_id] = chapters
CacheStore(cache, book_id, looked) == cache @@ (book_id :> looked)

\* Line 177: chapters[spec.name] = ch_id, on the dict the cache holds.
Memoize(looked, name, ch_id) == looked @@ (name :> ch_id)

\* ensure_chapter(api, cache, spec, apply). failAt is the request of this
\* call that raises (0: none). The result holds the returned id (raised:
\* an exception left the function instead), the cache and the remote
\* chapter list after the call, and the requests the call issued.
ensure_chapter(cache, chs, spec, app, failAt) ==
    LET hit == CacheHit(cache, spec.book_id)
        reqs1 == IF hit THEN <<>>
                 ELSE <<Request("GET", "/books", spec.book_id, NoBody)>>
        looked == IF hit THEN cache[spec.book_id]
                  ELSE get_book_chapters(chs, spec.book_id)
        cache1 == IF hit THEN cache
                  ELSE CacheStore(cache, spec.book_id, looked)
        post == Request("POST", "/chapters", 0,
                        [book_id |-> spec.book_id, name |-> spec.name])
        ch_id == NewChapterId(chs)
    IN  IF ~hit /\ failAt = 1
        THEN [raised |-> TRUE, ret |-> 0, cache |-> cache,
              chapters |-> chs, reqs |-> reqs1]
        ELSE IF spec.name \in DOMAIN looked
        THEN [raised |-> FALSE, ret |-> looked[spec.name], cache |-> cache1,
              chapters |-> chs, reqs |-> reqs1]
        ELSE IF ~app
        THEN [raised |-> FALSE, ret |-> -1, cache |-> cache1,
              chapters |-> chs, reqs |-> reqs1]
        ELSE IF failAt = Len(reqs1) + 1
        THEN [raised |-> TRUE, ret |-> 0, cache |-> cache1,
              chapters |-> chs, reqs |-> Append(reqs1, post)]
        ELSE [raised |-> FALSE, ret |-> ch_id,
              cache |-> [b \in DOMAIN cache1 |->
                            IF b = spec.book_id
                            THEN Memoize(looked, spec.name, ch_id)
                            ELSE cache1[b]],
              chapters |-> Append(chs, Ch(ch_id, spec.book_id, spec.name)),
              reqs |-> Append(reqs1, post)]

\* The server refuses to move a page into a chapter it does not have.
ChapterExists(chs, id) == \E k \in 1..Len(chs) : chs[k].id = id

\* Line 185: current_ch_id == target_chapter_id
SameChapter(current_ch_id, target_chapter_id) ==
    current_ch_id = target_chapter_id

\* Line 194: PUT /pages/{page_id} {"chapter_id": target}, as the server
\* applies it.
PutPageChapter(pch, page_id, target_chapter_id) ==
    [pch EXCEPT ![page_id] = target_chapter_id]

\* move_page(api, page_id, target_chapter_id, apply). failAt as above; the
\* result holds changed and the record (info), the pages after the call and
\* the requests issued.
move_page(pch, chs, page_id, target_chapter_id, app, failAt) ==
    LET get == Request("GET", "/pages", page_id, NoBody)
        put == Request("PUT", "/pages", page_id,
                       [chapter_id |-> target_chapter_id])
        current_ch_id == pch[page_id]
        info == [page_id |-> page_id, from |-> current_ch_id,
                 to |-> target_chapter_id]
    IN  IF failAt = 1
        THEN [raised |-> TRUE, changed |-> FALSE, info |-> info,
              pages |-> pch, reqs |-> <<get>>]
        ELSE IF SameChapter(current_ch_id, target_chapter_id)
        THEN [raised |-> FALSE, changed |-> FALSE, info |-> info,
              pages |-> pch, reqs |-> <<get>>]
        ELSE IF ~app
        THEN [raised |-> FALSE, changed |-> TRUE, info |-> info,
              pages |-> pch, reqs |-> <<get>>]
        ELSE IF failAt = 2 \/ ~ChapterExists(chs, target_chapter_id)
        THEN [raised |-> TRUE, changed |-> FALSE, info |-> info,
              pages |-> pch, reqs |-> <<get, put>>]
        ELSE [raised |-> FALSE, changed |-> TRUE, info |-> info,
              pages |-> PutPageChapter(pch, page_id, target_chapter_id),
              reqs |-> <<get, put>>]

\* Line 522: if ch_id == -1
IsSentinel(ch_id) == ch_id = -1

\* sorted(resolved_targets.keys())
RECURSIVE SortedSeq(_)
SortedSeq(S) ==
    IF S = {} THEN <<>> ELSE <<Min(S)>> \o SortedSeq(S \ {Min(S)})

\* Which request of a call raises: none, or one while the budget lasts.
FailChoices == IF failures < MaxFailures THEN 0..2 ELSE {0}
\* "moved += 1" and "skipped += 1" both run, whatever did_move is.
Raised_Always(n) == 1
Raised(n) == IF n THEN 1 ELSE 0

NoMoveCalls == [p \in Pages |-> <<>>]
NoCall == [called |-> FALSE]
LastTwo(s) == IF Len(s) <= 2 THEN s ELSE SubSeq(s, Len(s) - 1, Len(s))

NoPrev == [outcome |-> "none", apply |-> FALSE, changed |-> FALSE,
           same_remote |-> FALSE, moves |-> <<>>,
           at_start |-> [chapters |-> <<>>]]

\* main fills targets in a fixed order that is not the order of the page
\* ids (1249 is inserted before 300, 914 before 906, 1261 before 1262):
\* the later ids first, or the earlier ids first.
InsertionOrder == [k \in 1..NPages |-> NPages + 1 - k]
CatalogOrders == {InsertionOrder, [k \in 1..NPages |-> k]}

\* Line 520 as "for pid in resolved_targets.keys()": a dict is gone
\* through in the order its keys were inserted.
MoveOrder_AsInserted(ord, keys) == ord

\* Line 520: sorted(resolved_targets.keys())
MoveOrder(ord, keys) == SortedSeq(keys)

\* ------------------------------------------------- organize-inbox: main
\* The catalog's pages start outside every target chapter.
InboxInit ==
    /\ chapters \in InitialChapters
    /\ page_chapter = [p \in Pages |-> 0]
    /\ targets \in [Pages -> Target]
    /\ order \in CatalogOrders
    /\ pc = "idle"
    /\ apply = FALSE
    /\ run = 0
    /\ idx = 1
    /\ chapter_cache = EmptyMap
    /\ resolved_targets = EmptyMap
    /\ moves = <<>>
    /\ moved = 0
    /\ skipped = 0
    /\ report = NoReport
    /\ failures = 0
    /\ requests = <<>>
    /\ ensure_calls = <<>>
    /\ move_calls = NoMoveCalls
    /\ last_call = NoCall
    /\ at_start = [chapters |-> chapters, page_chapter |-> page_chapter]
    /\ prev = NoPrev
    /\ LibraryUnused
    /\ ClassifyUnused
    /\ ClientUnused
    /\ DirectUnused
    /\ ShelveUnused
    /\ SeedUnused

\* main up to line 507: the mode is read, the catalog is built, the cache
\* and resolved_targets start empty.
StartRun(a) ==
    /\ pc \in {"idle", "done", "raised"}
    /\ run < MaxRuns
    /\ run' = run + 1
    /\ apply' = a
    /\ prev' = [outcome |-> pc, apply |-> apply,
                changed |-> moved > 0 /\ chapters # at_start.chapters,
                same_remote |-> at_start = [chapters |-> chapters,
                                            page_chapter |-> page_chapter],
                moves |-> IF report.written THEN report.moves ELSE <<>>,
                at_start |-> at_start]
    /\ last_call' = NoCall
    /\ at_start' = [chapters |-> chapters, page_chapter |-> page_chapter]
    /\ pc' = "resolve"
    /\ idx' = 1
    /\ chapter_cache' = EmptyMap
    /\ resolved_targets' = EmptyMap
    /\ moves' = <<>>
    /\ moved' = 0
    /\ skipped' = 0
    /\ report' = NoReport
    /\ requests' = <<>>
    /\ ensure_calls' = <<>>
    /\ UNCHANGED <<remoteVars, catalogVars, failures, move_calls>>
    /\ UNCHANGED outsideInbox

\* One iteration of "for pid, t in targets.items()" (lines 509-514).
Resolve ==
    /\ pc = "resolve"
    /\ \E failAt \in FailChoices :
        LET pid == order[idx]
            t == targets[pid]
            r == IF t.kind = "id"
                 THEN [raised |-> FALSE, ret |-> t.id, cache |-> chapter_cache,
                       chapters |-> chapters, reqs |-> <<>>]
                 ELSE ensure_chapter(chapter_cache, chapters, t, apply, failAt)
        IN  /\ failAt > 0 => r.raised
            /\ chapters' = r.chapters
            /\ chapter_cache' = r.cache
            /\ requests' = requests \o r.reqs
            /\ failures' = failures + Raised(r.raised)
            /\ ensure_calls' =
                 IF t.kind = "id" THEN ensure_calls
                 ELSE Append(ensure_calls,
                             [spec |-> t, raised |-> r.raised, ret |-> r.ret,
                              reqs |-> r.reqs])
            /\ IF r.raised
               THEN /\ pc' = "raised"
                    /\ UNCHANGED <<resolved_targets, idx>>
               ELSE /\ resolved_targets' = resolved_targets @@ (pid :> r.ret)
                    /\ pc' = IF idx = NPages THEN "move" ELSE "resolve"
                    /\ idx' = IF idx = NPages THEN 1 ELSE idx + 1
    /\ UNCHANGED <<page_chapter, catalogVars, apply, run, moves, moved,
                   skipped, report, move_calls, last_call, at_start, prev>>
    /\ UNCHANGED outsideInbox

\* One iteration of "for pid in sorted(resolved_targets.keys())"
\* (lines 520-532).
Move ==
    /\ pc = "move"
    /\ \E failAt \in FailChoices :
        LET pid == MoveOrder(order, DOMAIN resolved_targets)[idx]
            ch_id == resolved_targets[pid]
            last == idx = Cardinality(DOMAIN resolved_targets)
            r == move_page(page_chapter, chapters, pid, ch_id, apply, failAt)
        IN  IF IsSentinel(ch_id)
            THEN /\ failAt = 0
                 /\ moves' = Append(moves, [page_id |-> pid,
                                 to |-> "(create chapter)", note |-> "dry-run"])
                 /\ skipped' = skipped + 1
                 /\ pc' = IF last THEN "report" ELSE "move"
                 /\ idx' = idx + 1
                 /\ UNCHANGED <<page_chapter, requests, failures, moved,
                                move_calls, last_call>>
            ELSE /\ failAt > 0 => r.raised
                 /\ page_chapter' = r.pages
                 /\ requests' = requests \o r.reqs
                 /\ failures' = failures + Raised(failAt > 0)
                 /\ move_calls' = [move_calls EXCEPT ![pid] =
                       LastTwo(Append(@, [target |-> ch_id, apply |-> apply,
                                          raised |-> r.raised,
                                          changed |-> r.changed]))]
                 /\ last_call' = [called |-> TRUE, page_id |-> pid,
                                  target |-> ch_id, apply |-> apply,
                                  before |-> page_chapter[pid],
                                  after |-> r.pages[pid],
                                  raised |-> r.raised, changed |-> r.changed,
                                  info |-> r.info, reqs |-> r.reqs]
                 /\ IF r.raised
                    THEN /\ pc' = "raised"
                         /\ UNCHANGED <<moves, moved, skipped, idx>>
                    ELSE /\ moves' = Append(moves, r.info)
                         /\ moved' = moved + Raised(r.changed)
                         /\ skipped' = skipped + Raised(~r.changed)
                         /\ pc' = IF last THEN "report" ELSE "move"
                         /\ idx' = idx + 1
    /\ UNCHANGED <<chapters, catalogVars, apply, run, chapter_cache,
                   resolved_targets, report, ensure_calls, at_start, prev>>
    /\ UNCHANGED outsideInbox

\* Lines 534-547: the report is written and main returns 0.
WriteReport ==
    /\ pc = "report"
    /\ report' = [written |-> TRUE, apply |-> apply, moved |-> moved,
                  skipped |-> skipped, moves |-> moves]
    /\ pc' = "done"
    /\ UNCHANGED <<remoteVars, catalogVars, apply, run, idx, chapter_cache,
                   resolved_targets, moves, moved, skipped, failures,
                   requests, ensure_calls, move_calls, last_call, at_start,
                   prev>>
    /\ UNCHANGED outsideInbox

InboxNext ==
    \/ \E a \in BOOLEAN : StartRun(a)
    \/ Resolve
    \/ Move
    \/ WriteReport

Spec == InboxInit /\ [][InboxNext]_vars

\* ------------------------------------------- organize-inbox: properties
Writes(reqs) == SelectSeq(reqs, IsWrite)
InScope(chs, spec) ==
    \E k \in 1..Len(chs) :
        chs[k].book_id = spec.book_id /\ chs[k].name = spec.name
IsCreate(r, spec) ==
    /\ r.method = "POST"
    /\ r.body = [book_id |-> spec.book_id, name |-> spec.name]
Specs == {t \in Target : t.kind = "spec"}
Returned(c) == ~c.raised

\* C1: an apply run that follows a completed apply run of the same catalog
\* changes nothing: it counts no move (moved = 0), every record it appends
\* has from = to, and it issues no create or move request.
C1_SecondApplyRunIsNoOp ==
    (run >= 2 /\ apply /\ prev.apply /\ prev.outcome = "done") =>
        /\ moved = 0
        /\ Writes(requests) = <<>>
        /\ \A k \in 1..Len(moves) : moves[k].from = moves[k].to
        /\ report.written => report.moved = 0

\* C1 witness: the second apply run completed after a first apply run that
\* created a chapter and moved a page.
C1_Witness ==
    /\ run >= 2 /\ apply /\ prev.apply /\ prev.outcome = "done"
    /\ pc = "done"
    /\ prev.changed

\* C4 (as claimed): a run that has ended has written a Report with one
\* entry per assignment, also when a remote call failed.
C4_RunAlwaysProducesReport ==
    pc \in {"done", "raised"} =>
        (report.written /\ Len(report.moves) = NPages)

\* C7: in dry-run ensure_chapter never issues a create request, returns the
\* sentinel -1 exactly when the scope holds no chapter of the requested
\* name, and a repeated call for the same spec returns the same id without
\* any remote request.
C7_DryRunEnsureChapter ==
    ~apply =>
        \A k \in 1..Len(ensure_calls) :
            LET c == ensure_calls[k] IN
            /\ \A j \in 1..Len(c.reqs) : c.reqs[j].method = "GET"
            /\ Returned(c) => (c.ret = -1 <=> ~InScope(chapters, c.spec))
            /\ \A j \in 1..(k - 1) :
                   ensure_calls[j].spec = c.spec =>
                       /\ Returned(c)
                       /\ c.ret = ensure_calls[j].ret
                       /\ c.reqs = <<>>

\* C7 witness: a dry-run in which the same missing chapter was asked for
\* twice and the sentinel came back both times.
C7_Witness ==
    /\ ~apply
    /\ \E k \in 1..Len(ensure_calls) : \E j \in 1..(k - 1) :
           /\ ensure_calls[j].spec = ensure_calls[k].spec
           /\ ensure_calls[j].ret = -1
           /\ ensure_calls[k].ret = -1
           /\ Len(ensure_calls[j].reqs) = 1

\* C8: in an apply run at most one create request is issued per
\* (book_id, name), none for a pair the book already held when the run
\* started, and a later call for the same pair returns the id of the first
\* without any remote request.
C8_AtMostOneCreatePerPair ==
    apply =>
        /\ \A sp \in Specs :
              LET creates == {k \in 1..Len(requests) : IsCreate(requests[k], sp)}
              IN  /\ Cardinality(creates) <= 1
                  /\ InScope(at_start.chapters, sp) => creates = {}
        /\ \A k \in 1..Len(ensure_calls) : \A j \in 1..(k - 1) :
              ensure_calls[j].spec = ensure_calls[k].spec =>
                  /\ Returned(ensure_calls[k])
                  /\ ensure_calls[k].ret = ensure_calls[j].ret
                  /\ ensure_calls[k].reqs = <<>>

\* C8 witness: the first call for a pair created the chapter and a second
\* call for the same pair got the created id.
C8_Witness ==
    /\ apply
    /\ \E k \in 1..Len(ensure_calls) : \E j \in 1..(k - 1) :
           /\ ensure_calls[j].spec = ensure_calls[k].spec
           /\ \E q \in 1..Len(ensure_calls[j].reqs) :
                  IsCreate(ensure_calls[j].reqs[q], ensure_calls[j].spec)
           /\ ensure_calls[k].ret = ensure_calls[j].ret
           /\ ensure_calls[k].ret > 0

\* C9: a move_page call for a page that is already in the target chapter
\* returns changed = false with from = to = target, issues no write request
\* and leaves the page where it is, in dry-run and in apply mode.
C9_MoveToCurrentChapterIsNoOp ==
    LET c == last_call IN
    (c.called /\ Returned(c) /\ c.before = c.target) =>
        /\ ~c.changed
        /\ c.info.from = c.target
        /\ c.info.to = c.target
        /\ Writes(c.reqs) = <<>>
        /\ c.after = c.before

\* C9 witness: an apply-mode call returned for a page that an earlier run
\* had already moved into the target chapter.
C9_Witness ==
    /\ last_call.called /\ Returned(last_call) /\ last_call.apply
    /\ last_call.before = last_call.target
    /\ last_call.target > 0
    /\ Len(move_calls[last_call.page_id]) = 2

\* C10 (as claimed): two successive move_page calls for one page with the
\* same target never both return changed = true.
C10_NeverTwiceChanged ==
    \A p \in Pages :
        (/\ Len(move_calls[p]) = 2
         /\ move_calls[p][1].target = move_calls[p][2].target
         /\ Returned(move_calls[p][1]) /\ Returned(move_calls[p][2]))
        => ~(move_calls[p][1].changed /\ move_calls[p][2].changed)

\* C10 (amended): when the first of two successive move_page calls for one
\* page with the same target ran in apply mode and returned changed = true,
\* the second returns changed = false; after a dry-run call that returned
\* changed = true the second returns changed = true again.
C10_NeverTwiceChangedAfterApply ==
    \A p \in Pages :
        (/\ Len(move_calls[p]) = 2
         /\ move_calls[p][1].target = move_calls[p][2].target
         /\ Returned(move_calls[p][1]) /\ Returned(move_calls[p][2])
         /\ move_calls[p][1].changed)
        => (move_calls[p][2].changed <=> ~move_calls[p][1].apply)

\* C10 witness: an apply-mode move that changed the page, followed by a
\* call with the same target that reported no change.
C10_Witness ==
    \E p \in Pages :
        /\ Len(move_calls[p]) = 2
        /\ move_calls[p][1].target = move_calls[p][2].target
        /\ move_calls[p][1].apply /\ move_calls[p][1].changed
        /\ Returned(move_calls[p][2]) /\ ~move_calls[p][2].changed

IsPut(r) == r.method = "PUT"

\* C11: a move_page call that returns for a page whose chapter differs from
\* the target returns changed = true and the record (page, from = the prior
\* chapter, to = the target) in either mode; it sent the PUT exactly when
\* apply is true, so that after a dry-run call the page is where it was and
\* after an apply call it is in the target. No call sends a PUT in dry-run.
C11_MoveToOtherChapterReportsChange ==
    last_call.called =>
        /\ SelectSeq(last_call.reqs, IsPut) # <<>> => last_call.apply
        /\ (~last_call.raised /\ last_call.before # last_call.target) =>
              /\ last_call.changed
              /\ last_call.info = [page_id |-> last_call.page_id,
                                   from |-> last_call.before,
                                   to |-> last_call.target]
              /\ (SelectSeq(last_call.reqs, IsPut) # <<>>) = last_call.apply
              /\ last_call.after =
                    IF last_call.apply THEN last_call.target
                    ELSE last_call.before

\* A dry-run move_page call for a page outside its target has returned
\* changed = true and the page has not moved.
C11_Witness ==
    /\ last_call.called
    /\ ~last_call.apply
    /\ ~last_call.raised
    /\ last_call.before # last_call.target
    /\ last_call.changed
    /\ page_chapter[last_call.page_id] = last_call.before

\* ---------------------------------------------- organize-library: text
\* A string is a sequence of one-character strings.
Whitespace == {" ", "\n", "\t"}

\* s[i..] starts with pat.
StartsAt(s, i, pat) ==
    /\ i + Len(pat) - 1 <= Len(s)
    /\ \A k \in 1..Len(pat) : s[i + k - 1] = pat[k]

\* The first position >= i at which pat starts in s, or 0.
FindFrom(s, i, pat) ==
    LET hits == {j \in i..Len(s) : StartsAt(s, j, pat)}
    IN  IF hits = {} THEN 0 ELSE Min(hits)

\* str.strip()
Strip(s) ==
    LET Kept(k) == s[k] \notin Whitespace
    IN  IF \A k \in 1..Len(s) : ~Kept(k) THEN <<>>
        ELSE SubSeq(s,
                    CHOOSE k \in 1..Len(s) :
                        Kept(k) /\ \A j \in 1..(k - 1) : ~Kept(j),
                    CHOOSE k \in 1..Len(s) :
                        Kept(k) /\ \A j \in (k + 1)..Len(s) : ~Kept(j))

\* re.sub(r"<tag[^>]*>.*?</tag>", " ", s, flags=DOTALL | IGNORECASE), for
\* the lower-case text of the model: the leftmost "<tag", the first ">"
\* after it and the first "</tag>" after that are replaced by one space.
RECURSIVE SubElement(_, _, _)
SubElement(s, open, close) ==
    LET i == FindFrom(s, 1, open)
        j == IF i = 0 THEN 0 ELSE FindFrom(s, i + Len(open), <<">">>)
        k == IF j = 0 THEN 0 ELSE FindFrom(s, j + 1, close)
    IN  IF k = 0
        THEN IF i = 0 \/ i = Len(s) THEN s
             ELSE SubSeq(s, 1, i) \o
                  SubElement(SubSeq(s, i + 1, Len(s)), open, close)
        ELSE SubSeq(s, 1, i - 1) \o <<" ">> \o
             SubElement(SubSeq(s, k + Len(close), Len(s)), open, close)

\* re.sub(r"<[^>]+>", " ", s): a "<", at least one character that is not
\* ">", and the ">" that follows.
RECURSIVE SubTags(_)
SubTags(s) ==
    LET i == FindFrom(s, 1, <<"<">>)
        j == IF i = 0 THEN 0 ELSE FindFrom(s, i + 1, <<">">>)
    IN  IF i = 0 \/ j = 0 THEN s
        ELSE IF j = i + 1
        THEN SubSeq(s, 1, i) \o SubTags(SubSeq(s, i + 1, Len(s)))
        ELSE SubSeq(s, 1, i - 1) \o <<" ">> \o
             SubTags(SubSeq(s, j + 1, Len(s)))

\* s.replace("&nbsp;", " ")
Nbsp == <<"&", "n", "b", "s", "p", ";">>
RECURSIVE ReplaceNbsp(_)
ReplaceNbsp(s) ==
    LET i == FindFrom(s, 1, Nbsp)
    IN  IF i = 0 THEN s
        ELSE SubSeq(s, 1, i - 1) \o <<" ">> \o
             ReplaceNbsp(SubSeq(s, i + Len(Nbsp), Len(s)))

\* re.sub(r"\s+", " ", s)
RECURSIVE CollapseSpace(_)
CollapseSpace(s) ==
    IF s = <<>> THEN <<>>
    ELSE IF Head(s) \in Whitespace
    THEN LET rest == {k \in 1..Len(s) : s[k] \notin Whitespace}
         IN  IF rest = {} THEN <<" ">>
             ELSE <<" ">> \o CollapseSpace(SubSeq(s, Min(rest), Len(s)))
    ELSE <<Head(s)>> \o CollapseSpace(Tail(s))

StyleOpen == <<"<", "s", "t", "y", "l", "e">>
StyleClose == <<"<", "/", "s", "t", "y", "l", "e", ">">>
ScriptOpen == <<"<", "s", "c", "r", "i", "p", "t">>
ScriptClose == <<"<", "/", "s", "c", "r", "i", "p", "t", ">">>

strip_html_to_text(s) ==
    Strip(CollapseSpace(ReplaceNbsp(SubTags(
        SubElement(SubElement(s, StyleOpen, StyleClose),
                   ScriptOpen, ScriptClose)))))

\* A page as GET /pages/{id} returns it; a missing or null field is "".
\* raw = page.get("markdown") or page.get("raw_html") or page.get("html") or ""
RawOf(page) ==
    IF page.markdown # <<>> THEN page.markdown
    ELSE IF page.raw_html # <<>> THEN page.raw_html
    ELSE page.html

\* The length below which stripped text counts as empty (line 626).
EmptyTextLimit == 30

\* Line 626 with "len(txt) <= 30".
is_effectively_empty_page_Inclusive(page) ==
    LET raw == Strip(RawOf(page))
    IN  IF raw = <<>> THEN TRUE
        ELSE Len(strip_html_to_text(raw)) <= EmptyTextLimit

is_effectively_empty_page(page) ==
    LET raw == Strip(RawOf(page))
    IN  IF raw = <<>> THEN TRUE
        ELSE Len(strip_html_to_text(raw)) < EmptyTextLimit

\* Page bodies.
Rep(c, n) == [k \in 1..n |-> c]
Elem(tag, text) ==
    <<"<">> \o tag \o <<">">> \o text \o <<"<", "/">> \o tag \o <<">">>
BodyBlank == <<" ", "\n", " ">>
BodyHeading == Elem(<<"h", "1">>, Rep("a", 10))
BodyMarkup == Elem(<<"d", "i", "v">>,
                   Elem(<<"p">>, Elem(<<"b">>, Rep("a", 2)) \o Nbsp) \o
                   Elem(<<"p">>, <<" ">>))
Body29 == Elem(<<"p">>, Rep("a", 14) \o <<" ">> \o Rep("b", 14))
Body30 == Elem(<<"p">>, Rep("a", 15) \o <<" ", "\n">> \o Rep("b", 14))
Body45 == Elem(<<"d", "i", "v">>, Body30 \o Nbsp \o Rep("c", 14))

\* ------------------------------------------ organize-library: classifier
\* Lines 143-183, each word as its sequence of characters.
STOPWORDS ==
    {<<"a">>, <<"a", "n">>, <<"a", "n", "d">>, <<"a", "r", "e">>,
     <<"a", "s">>, <<"a", "t">>, <<"b", "e">>, <<"b", "u", "t">>,
     <<"b", "y">>, <<"f", "o", "r">>, <<"f", "r", "o", "m">>,
     <<"h", "a", "s">>, <<"h", "a", "v", "e">>, <<"h", "o", "w">>,
     <<"i", "f">>, <<"i", "n">>, <<"i", "n", "t", "o">>, <<"i", "s">>,
     <<"i", "t">>, <<"i", "t", "s">>, <<"o", "f">>, <<"o", "n">>,
     <<"o", "r">>, <<"o", "u", "r">>, <<"o", "u", "t">>, <<"t", "h", "e">>,
     <<"t", "h", "i", "s">>, <<"t", "o">>, <<"u", "s", "i", "n", "g">>,
     <<"v", "s">>, <<"w", "e">>, <<"w", "h", "a", "t">>,
     <<"w", "h", "e", "n">>, <<"w", "h", "e", "r", "e">>, <<"w", "h", "y">>,
     <<"w", "i", "t", "h">>, <<"y", "o", "u">>, <<"y", "o", "u", "r">>}

\* Lines 185-210.
WEAK_TOKENS ==
    {<<"o", "v", "e", "r", "v", "i", "e", "w">>,
     <<"g", "u", "i", "d", "e">>, <<"b", "a", "s", "i", "c", "s">>,
     <<"i", "n", "t", "r", "o", "d", "u", "c", "t", "i", "o", "n">>,
     <<"g", "e", "t", "t", "i", "n", "g">>,
     <<"s", "t", "a", "r", "t", "e", "d">>,
     <<"g", "e", "n", "e", "r", "a", "l">>, <<"n", "o", "t", "e", "s">>,
     <<"r", "e", "f", "e", "r", "e", "n", "c", "e">>,
     <<"r", "e", "s", "o", "u", "r", "c", "e", "s">>,
     <<"t", "o", "o", "l", "s">>,
     <<"s", "o", "f", "t", "w", "a", "r", "e">>,
     <<"t", "r", "a", "i", "n", "i", "n", "g">>,
     <<"d", "e", "v", "e", "l", "o", "p", "m", "e", "n", "t">>,
     <<"p", "r", "o", "j", "e", "c", "t">>,
     <<"p", "r", "o", "j", "e", "c", "t", "s">>,
     <<"d", "e", "s", "i", "g", "n">>,
     <<"s", "t", "a", "n", "d", "a", "r", "d", "s">>,
     <<"p", "r", "o", "c", "e", "d", "u", "r", "e", "s">>,
     <<"p", "r", "o", "c", "e", "d", "u", "r", "e">>,
     <<"p", "r", "o", "c", "e", "s", "s">>, <<"s", "e", "t", "u", "p">>,
     <<"l", "i", "b", "r", "a", "r", "y">>,
     <<"a", "r", "c", "h", "i", "v", "e">>}

Digits == {"0", "1", "2", "3", "4", "5", "6", "7", "8", "9"}
LowerLetters ==
    <<"a", "b", "c", "d", "e", "f", "g", "h", "i", "j", "k", "l", "m",
      "n", "o", "p", "q", "r", "s", "t", "u", "v", "w", "x", "y", "z">>
UpperLetters ==
    <<"A", "B", "C", "D", "E", "F", "G", "H", "I", "J", "K", "L", "M",
      "N", "O", "P", "Q", "R", "S", "T", "U", "V", "W", "X", "Y", "Z">>
\* \w of the regular expressions, for the characters of the model.
WordChars == Digits \cup Range(LowerLetters) \cup Range(UpperLetters) \cup {"_"}

\* str.lower(), one character.
Lower(c) ==
    IF c \in Range(UpperLetters)
    THEN LowerLetters[CHOOSE k \in 1..26 : UpperLetters[k] = c]
    ELSE c

\* The end of the digit run that starts at s[i].
RunEnd(s, i) ==
    Min({e \in i..Len(s) : e = Len(s) \/ s[e + 1] \notin Digits})

\* The ends of the digit runs of \d+(?:\.\d+)* matched from s[i], a digit.
RECURSIVE RunEnds(_, _)
RunEnds(s, i) ==
    LET e == RunEnd(s, i)
    IN  IF e + 2 <= Len(s) /\ s[e + 1] = "." /\ s[e + 2] \in Digits
        THEN <<e>> \o RunEnds(s, e + 2)
        ELSE <<e>>

\* extract_numeric_prefix: re.match(r"^\s*(\d+(?:\.\d+)*)\b", title), the
\* group or <<>> for None. The match is the longest run of dotted numbers
\* that ends at a word boundary: a last number followed by a letter or "_"
\* is given back.
extract_numeric_prefix(title) ==
    LET body == {k \in 1..Len(title) : title[k] \notin Whitespace}
        start == IF body = {} THEN 0 ELSE Min(body)
    IN  IF start = 0 \/ title[start] \notin Digits THEN <<>>
        ELSE LET ends == RunEnds(title, start)
                 last == ends[Len(ends)]
                 bound == last = Len(title) \/ title[last + 1] \notin WordChars
             IN  IF bound THEN SubSeq(title, start, last)
                 ELSE IF Len(ends) >= 2
                 THEN SubSeq(title, start, ends[Len(ends) - 1])
                 ELSE <<>>

\* tokenize: lower-case, split at every run of characters outside
\* [a-z0-9], drop the stop words and the one-character parts.
tokenize(title) ==
    LET s == [k \in 1..Len(title) |-> Lower(title[k])]
        Alnum(k) == s[k] \in Digits \cup Range(LowerLetters)
        parts == {SubSeq(s, i, j) : <<i, j>> \in
                    {p \in (1..Len(s)) \X (1..Len(s)) :
                        /\ p[1] <= p[2]
                        /\ \A k \in p[1]..p[2] : Alnum(k)
                        /\ p[1] = 1 \/ ~Alnum(p[1] - 1)
                        /\ p[2] = Len(s) \/ ~Alnum(p[2] + 1)}}
    IN  {p \in parts : p \notin STOPWORDS /\ Len(p) >= 2}

\* Lines 481-491 of move_direct_pages: a chapter as best_chapter_for_page
\* gets it.
Candidate(id, name) ==
    [id |-> id, name |-> name, tokens |-> tokenize(name),
     prefix |-> extract_numeric_prefix(name)]

ReasonPrefix == <<"p", "r", "e", "f", "i", "x", ":">>
ReasonPrefixOverlap ==
    <<"p", "r", "e", "f", "i", "x", "+">> \o
    <<"o", "v", "e", "r", "l", "a", "p", ":">>
ReasonNoMatch == <<"n", "o", "-", "m", "a", "t", "c", "h">>
ReasonOverlap == <<"o", "v", "e", "r", "l", "a", "p", ":">>
ReasonWeakOverlap ==
    <<"w", "e", "a", "k", "-", "o", "v", "e", "r", "l", "a", "p", ":">>
ReasonLowConfidence ==
    <<"l", "o", "w", "-", "c", "o", "n", "f", "i", "d", "e", "n", "c", "e">>

\* best_chapter_for_page without its prefix phase.
PrefixMatches_Skipped(chs, page_prefix) == <<>>

\* Line 235: [ch for ch in chapters if ch.get("prefix") == page_prefix]
PrefixMatches(chs, page_prefix) ==
    LET Same(ch) == ch.prefix = page_prefix
    IN  SelectSeq(chs, Same)

\* A score that only tells overlap from none.
Score_Capped(page_toks, ch) ==
    IF page_toks \cap ch.tokens = {} THEN 0 ELSE 1

Score(page_toks, ch) == Cardinality(page_toks \cap ch.tokens)

\* Line 273 without "tok not in WEAK_TOKENS".
IsWeak_Never(tok) == FALSE

\* Line 273 with every token held weak.
IsWeak_Always(tok) == TRUE

\* Line 273: tok in WEAK_TOKENS
IsWeak(tok) == tok \in WEAK_TOKENS

\* The loops with "if score >= best_score": the last of the best is kept.
FirstBest_LastAmongEquals(chs, page_toks) ==
    IF chs = <<>> THEN 0
    ELSE LET top == Max({Cardinality(page_toks \cap chs[k].tokens) :
                            k \in 1..Len(chs)})
         IN  Max({k \in 1..Len(chs) :
                     Cardinality(page_toks \cap chs[k].tokens) = top})

\* The loop of lines 256-262 preferring, among the best, a candidate that
\* shares a token outside WEAK_TOKENS.
FirstBest_StrongFirst(chs, page_toks) ==
    IF chs = <<>> THEN 0
    ELSE LET top == Max({Score(page_toks, chs[k]) : k \in 1..Len(chs)})
             best == {k \in 1..Len(chs) : Score(page_toks, chs[k]) = top}
             strong == {k \in best :
                           (page_toks \cap chs[k].tokens) \ WEAK_TOKENS # {}}
         IN  IF strong # {} THEN Min(strong) ELSE Min(best)

\* The loops of lines 242-246 and 256-262: the index of the first element
\* with the largest score ("if score > best_score"), 0 for an empty list.
FirstBest(chs, page_toks) ==
    IF chs = <<>> THEN 0
    ELSE LET top == Max({Score(page_toks, chs[k]) : k \in 1..Len(chs)})
         IN  Min({k \in 1..Len(chs) : Score(page_toks, chs[k]) = top})

\* best_intersection with "best_intersection |= inter" in the loop: the
\* shared tokens of every candidate examined.
BestIntersection_Accumulated(page_name, chs) ==
    UNION {tokenize(page_name) \cap chs[k].tokens : k \in 1..Len(chs)}

\* best_intersection after the loop of lines 256-262: the tokens the title
\* shares with the candidate kept, the empty set without one.
BestIntersection(page_name, chs) ==
    LET k == FirstBest(chs, tokenize(page_name))
    IN  IF k = 0 THEN {} ELSE tokenize(page_name) \cap chs[k].tokens

\* Line 272: what next(iter(best_intersection)) can yield, a set being
\* iterated in no fixed order; "" for the empty set.
NextIter(inter) == IF inter = {} THEN {<<>>} ELSE inter

\* best_chapter_for_page(page_name, chapters) with tok the token line 272
\* yields: id is 0 for None.
best_chapter_for_page_iter(page_name, chs, tok) ==
    LET page_prefix == extract_numeric_prefix(page_name)
        prefix_matches == IF page_prefix = <<>> THEN <<>>
                          ELSE PrefixMatches(chs, page_prefix)
        page_toks == tokenize(page_name)
        pbest == prefix_matches[FirstBest(prefix_matches, page_toks)]
        k == FirstBest(chs, page_toks)
        best_score == IF k = 0 THEN -1 ELSE Score(page_toks, chs[k])
    IN  IF Len(prefix_matches) = 1
        THEN [id |-> prefix_matches[1].id,
              reason |-> ReasonPrefix \o page_prefix]
        ELSE IF Len(prefix_matches) > 1
        THEN [id |-> pbest.id,
              reason |-> ReasonPrefixOverlap \o page_prefix \o <<":">> \o
                         <<ToString(Score(page_toks, pbest))>>]
        ELSE IF k = 0 \/ best_score <= 0
        THEN [id |-> 0, reason |-> ReasonNoMatch]
        ELSE IF best_score >= 2
        THEN [id |-> chs[k].id,
              reason |-> ReasonOverlap \o <<ToString(best_score)>>]
        ELSE IF tok # <<>> /\ ~IsWeak(tok)
        THEN [id |-> chs[k].id, reason |-> ReasonWeakOverlap \o tok]
        ELSE [id |-> 0, reason |-> ReasonLowConfidence]

\* best_chapter_for_page(page_name, chapters) as one call returns it.
best_chapter_for_page(page_name, chs) ==
    best_chapter_for_page_iter(
        page_name, chs,
        CHOOSE t \in NextIter(BestIntersection(page_name, chs)) : TRUE)

\* Chapter names and page titles.
\* "3.1 AutoCAD Core Skills"
NameAutocadCoreSkills ==
    <<"3", ".", "1", " ", "A", "u", "t", "o", "C", "A", "D", " ", "C", "o",
      "r", "e", " ", "S", "k", "i", "l", "l", "s">>
\* "3.3 Navisworks"
NameNavisworks ==
    <<"3", ".", "3", " ", "N", "a", "v", "i", "s", "w", "o", "r", "k", "s">>
\* "3.1 Revit Basics"
NameRevitBasics ==
    <<"3", ".", "1", " ", "R", "e", "v", "i", "t", " ", "B", "a", "s", "i",
      "c", "s">>
\* "Overview"
NameOverview ==
    <<"O", "v", "e", "r", "v", "i", "e", "w">>
\* "Grounding"
NameGrounding ==
    <<"G", "r", "o", "u", "n", "d", "i", "n", "g">>
\* "2 Getting Started"
NameGettingStarted ==
    <<"2", " ", "G", "e", "t", "t", "i", "n", "g", " ", "S", "t", "a", "r",
      "t", "e", "d">>
\* "Revit Basics Lab"
NameRevitLab ==
    <<"R", "e", "v", "i", "t", " ", "B", "a", "s", "i", "c", "s", " ", "L",
      "a", "b">>
\* "3.1 AutoCAD Basics"
TitleAutocadBasics ==
    <<"3", ".", "1", " ", "A", "u", "t", "o", "C", "A", "D", " ", "B", "a",
      "s", "i", "c", "s">>
\* "Overview"
TitleOverview ==
    <<"O", "v", "e", "r", "v", "i", "e", "w">>
\* "Grounding Basics"
TitleGroundingBasics ==
    <<"G", "r", "o", "u", "n", "d", "i", "n", "g", " ", "B", "a", "s", "i",
      "c", "s">>
\* "3.3 Revit Basics"
TitleRevitBasics33 ==
    <<"3", ".", "3", " ", "R", "e", "v", "i", "t", " ", "B", "a", "s", "i",
      "c", "s">>
\* "AutoCAD Core Skills"
TitleCoreSkills ==
    <<"A", "u", "t", "o", "C", "A", "D", " ", "C", "o", "r", "e", " ", "S",
      "k", "i", "l", "l", "s">>
\* " 2.x Notes"
TitleNotes ==
    <<" ", "2", ".", "x", " ", "N", "o", "t", "e", "s">>
\* "3.1a Revit Intro"
TitleIntro ==
    <<"3", ".", "1", "a", " ", "R", "e", "v", "i", "t", " ", "I", "n", "t",
      "r", "o">>
\* "New Page"
TitleNewPage ==
    <<"N", "e", "w", " ", "P", "a", "g", "e">>
\* "3.1 Piping"
TitlePiping ==
    <<"3", ".", "1", " ", "P", "i", "p", "i", "n", "g">>
ChapterNames ==
    <<NameAutocadCoreSkills,
      NameNavisworks,
      NameRevitBasics,
      NameOverview,
      NameGrounding,
      NameGettingStarted,
      NameRevitLab>>
PageTitles ==
    {TitleAutocadBasics,
     TitleOverview,
     TitleGroundingBasics,
     TitleRevitBasics33,
     TitleCoreSkills,
     TitleNotes,
     TitleIntro,
     TitleNewPage,
     TitlePiping}

\* Candidates in a call of the classifier.
MaxCandidates == 2
\* Calls of best_chapter_for_page with the same arguments.
MaxEvaluations == 2

\* No script is running.
InboxUnused ==
    /\ page_chapter = EmptyMap
    /\ targets = EmptyMap
    /\ order = <<>>
    /\ idx = 1
    /\ chapter_cache = EmptyMap
    /\ resolved_targets = EmptyMap
    /\ moves = <<>>
    /\ moved = 0
    /\ skipped = 0
    /\ ensure_calls = <<>>
    /\ move_calls = EmptyMap
    /\ last_call = NoCall
    /\ prev = NoPrev

NoRun ==
    /\ chapters = <<>>
    /\ pc = "idle"
    /\ apply = FALSE
    /\ run = 0
    /\ report = NoReport
    /\ failures = 0
    /\ requests = <<>>
    /\ at_start = [chapters |-> <<>>]

\* The candidate lists: up to MaxCandidates chapters of a book, each once,
\* in any order, the id of a chapter being its place in ChapterNames.
CandidateLists ==
    LET picks == UNION {[1..n -> 1..Len(ChapterNames)] :
                           n \in 0..MaxCandidates}
        Once(f) == \A i, j \in DOMAIN f : i # j => f[i] # f[j]
    IN  {[k \in DOMAIN f |-> Candidate(f[k], ChapterNames[f[k]])] :
            f \in {g \in picks : Once(g)}}

ClassifyInit ==
    /\ arg_title \in PageTitles
    /\ arg_candidates \in CandidateLists
    /\ result = NoResult
    /\ NoRun
    /\ InboxUnused
    /\ LibraryUnused
    /\ ClientUnused
    /\ DirectUnused
    /\ ShelveUnused
    /\ SeedUnused

\* target_ch_id, reason = best_chapter_for_page(page_name, chapters), the
\* set of line 272 iterated in whatever order this call meets.
Classify ==
    /\ result.calls < MaxEvaluations
    /\ \E tok \in NextIter(BestIntersection(arg_title, arg_candidates)) :
          result' = [returned |-> TRUE, calls |-> result.calls + 1] @@
                    best_chapter_for_page_iter(arg_title, arg_candidates, tok)
    /\ UNCHANGED <<arg_title, arg_candidates, sharedVars, inboxVars,
                   libraryVars, clientVars, directVars, seedVars, shelveVars>>

ClassifyNext == Classify

SpecClassify == ClassifyInit /\ [][ClassifyNext]_vars

\* --------------------------------------- the classifier: properties
\* The places in the candidate list whose prefix is the title's prefix.
SamePrefix ==
    {k \in 1..Len(arg_candidates) :
        /\ extract_numeric_prefix(arg_title) # <<>>
        /\ arg_candidates[k].prefix = extract_numeric_prefix(arg_title)}
Overlap(k) == Cardinality(tokenize(arg_title) \cap arg_candidates[k].tokens)

C20_PrefixTieBrokenByOverlap ==
    (result.returned /\ Cardinality(SamePrefix) > 1) =>
        /\ \E k \in SamePrefix :
              /\ result.id = arg_candidates[k].id
              /\ \A j \in SamePrefix :
                    \/ Overlap(j) < Overlap(k)
                    \/ Overlap(j) = Overlap(k) /\ k <= j
        /\ SubSeq(result.reason, 1, 14) =
              <<"p", "r", "e", "f", "i", "x", "+",
                "o", "v", "e", "r", "l", "a", "p">>

\* Two candidates have the title's prefix and overlap the title equally;
\* the classifier has returned the one that comes first, which is not the
\* one with the smaller id.
C20_Witness ==
    /\ result.returned
    /\ \E k, j \in SamePrefix :
          /\ k < j
          /\ Overlap(k) = Overlap(j)
          /\ arg_candidates[k].id > arg_candidates[j].id
          /\ result.id = arg_candidates[k].id

\* The lexical phase: the classifier has returned and no candidate has the
\* title's prefix (or the title has none).
Lexical == result.returned /\ SamePrefix = {}
MaxOverlap ==
    Max({0} \cup {Overlap(k) : k \in 1..Len(arg_candidates)})
\* The first candidate with the largest overlap.
Selected == Min({k \in 1..Len(arg_candidates) : Overlap(k) = MaxOverlap})
\* The tokens the title shares with that candidate.
SharedTokens == tokenize(arg_title) \cap arg_candidates[Selected].tokens

\* C21: in the lexical phase the result is (None, "no-match") exactly when
\* no candidate shares a token with the title, an empty candidate list
\* included; a candidate that is returned is the first of those with the
\* largest overlap; and when the largest overlap n is 2 or more that
\* candidate is returned with the reason "overlap:" followed by n.
C21_LexicalPhasePicksFirstMaximum ==
    Lexical =>
        /\ (result.reason = <<"n", "o", "-", "m", "a", "t", "c", "h">>)
              <=> (MaxOverlap = 0)
        /\ MaxOverlap = 0 => result.id = 0
        /\ result.id # 0 => result.id = arg_candidates[Selected].id
        /\ MaxOverlap >= 2 =>
              /\ result.id = arg_candidates[Selected].id
              /\ result.reason =
                    <<"o", "v", "e", "r", "l", "a", "p", ":",
                      ToString(MaxOverlap)>>

\* Two candidates share two tokens each with a title whose prefix no
\* candidate has; the first of them is returned, which is not the one
\* with the smaller id.
C21_Witness ==
    /\ Lexical
    /\ extract_numeric_prefix(arg_title) # <<>>
    /\ MaxOverlap = 2
    /\ Len(arg_candidates) = 2
    /\ Overlap(1) = 2 /\ Overlap(2) = 2
    /\ arg_candidates[1].id > arg_candidates[2].id
    /\ result.id = arg_candidates[1].id

\* C22: in the lexical phase, when the largest overlap is 1 and the token
\* shared with the selected candidate is a weak token, the result is
\* (None, "low-confidence").
C22_OneWeakTokenIsRejected ==
    (Lexical /\ MaxOverlap = 1 /\ SharedTokens \subseteq WEAK_TOKENS) =>
        /\ result.id = 0
        /\ result.reason =
              <<"l", "o", "w", "-", "c", "o", "n", "f", "i", "d", "e", "n",
                "c", "e">>

\* The title "Overview" against a candidate list that holds "Overview":
\* the one shared token is weak and nothing is returned.
C22_Witness ==
    /\ Lexical
    /\ arg_title = <<"O", "v", "e", "r", "v", "i", "e", "w">>
    /\ MaxOverlap = 1
    /\ SharedTokens = {<<"o", "v", "e", "r", "v", "i", "e", "w">>}
    /\ result.id = 0
    /\ result.reason = ReasonLowConfidence

\* C23: in the lexical phase, when the largest overlap is 1 and the token t
\* shared with the selected candidate is not weak, that candidate is
\* returned with the reason "weak-overlap:" followed by t.
C23_OneStrongTokenIsAccepted ==
    (Lexical /\ MaxOverlap = 1 /\ SharedTokens \cap WEAK_TOKENS = {}) =>
        /\ result.id = arg_candidates[Selected].id
        /\ \E t \in SharedTokens :
              result.reason =
                  <<"w", "e", "a", "k", "-", "o", "v", "e", "r", "l", "a",
                    "p", ":">> \o t

\* Title tokens {grounding, basics} against a candidate with the tokens
\* {grounding}: the reason is "weak-overlap:grounding".
C23_Witness ==
    /\ Lexical
    /\ tokenize(arg_title) =
          {<<"g", "r", "o", "u", "n", "d", "i", "n", "g">>,
           <<"b", "a", "s", "i", "c", "s">>}
    /\ arg_candidates # <<>>
    /\ arg_candidates[Selected].tokens =
          {<<"g", "r", "o", "u", "n", "d", "i", "n", "g">>}
    /\ result.id = arg_candidates[Selected].id
    /\ result.reason =
          <<"w", "e", "a", "k", "-", "o", "v", "e", "r", "l", "a", "p", ":",
            "g", "r", "o", "u", "n", "d", "i", "n", "g">>

\* C24: a call of the classifier changes nothing but its own result: not
\* its arguments, not the remote state, not the requests issued; and a
\* call with the arguments of an earlier call returns the pair that call
\* returned, whatever order the token sets are iterated in.
C24_ClassifyIsPure ==
    [][/\ UNCHANGED <<arg_title, arg_candidates, sharedVars, inboxVars,
                      libraryVars, clientVars, directVars, seedVars, shelveVars>>
       /\ result.returned =>
             /\ result'.id = result.id
             /\ result'.reason = result.reason]_vars

\* The classifier has been called twice with the same arguments and has
\* gone through the one line that iterates a set.
C24_Witness ==
    /\ result.calls = 2
    /\ Lexical
    /\ MaxOverlap = 1
    /\ result.id # 0

\* ---------------------------------------------- organize-library: data
\* Runs of organize-library's main, one after the other.
MaxLibRuns == 2
\* Remote calls of organize-library that fail, over all runs: two, so that
\* both relocation requests of one container can fail.
MaxLibFailures == 2

HOLDING_SHELF_NAME == "9. Orphaned"
HOLDING_BOOK_NAME == "Empty Chapters Holding"
JunkNames == <<"New Page", "Test">>

Shelf(id, n, bs) == [id |-> id, name |-> n, books |-> bs]
Book(id, n) == [id |-> id, name |-> n]
Page(n, b, c, body) ==
    [name |-> n, book_id |-> b, chapter_id |-> c, markdown |-> <<>>,
     raw_html |-> body, html |-> body]

\* Two books and, in three of the four cases, the holding shelf: without
\* the holding book, with it off the shelf, with it on the shelf.
InitialLibrary ==
    LET two == <<Book(1, "Standards"), Book(2, "Training")>>
        three == Append(two, Book(3, HOLDING_BOOK_NAME))
        other == Shelf(1, "1. Onboarding", <<1>>)
    IN  { [shelves |-> <<other>>, books |-> two],
          [shelves |-> <<other, Shelf(2, HOLDING_SHELF_NAME, <<>>)>>,
           books |-> two],
          [shelves |-> <<other, Shelf(2, HOLDING_SHELF_NAME, <<2>>)>>,
           books |-> three],
          [shelves |-> <<other, Shelf(2, HOLDING_SHELF_NAME, <<2, 3>>)>>,
           books |-> three] }

\* Book 1 holds two empty chapters and one with pages, book 2 an empty
\* chapter that shares its name with one of book 1, the holding book (where
\* there is one) an empty chapter of its own.
LibraryChapters(bks) ==
    <<Ch(11, 1, "Overview"), Ch(12, 1, "Details"), Ch(13, 1, "Test"),
      Ch(21, 2, "Overview")>> \o
    (IF Len(bks) = 3 THEN <<Ch(31, 3, "Parked")>> ELSE <<>>)

\* Three pages with a junk title, one whose title only contains one, and
\* a page of content.
JunkBodies == {BodyBlank, BodyHeading, Body29, Body30, Body45}
LibraryPages(body) ==
    (1 :> Page("New Page", 1, 12, body)) @@
    (2 :> Page("Test", 2, 0, BodyMarkup)) @@
    (3 :> Page("Test Plan", 2, 0, BodyBlank)) @@
    (4 :> Page("Details", 1, 12, Body30 \o Body29)) @@
    (5 :> Page("Test", 1, 0, Body30))

\* --------------------------------------------- organize-library: mutants
\* move_empty_chapters without lines 591-599: the failure is not recorded.
RecordFailure_Dropped(fs, entry) == fs

\* delete_junk_pages without the "if apply" of line 645.
ShouldDelete_IgnoresApply(empty, app) == empty

\* ------------------------------------------ organize-library: operations
\* The id the server gives a newly created book.
NewBookId(bks) == Max({0} \cup {bks[k].id : k \in 1..Len(bks)}) + 1

\* The first element of a listing with the given name, or 0 (the loops of
\* lines 344-347 and 353-356).
FirstNamed(items, n) ==
    LET hits == {k \in 1..Len(items) : items[k].name = n}
    IN  IF hits = {} THEN 0 ELSE items[Min(hits)].id

ShelfBooks(shs, shelf_id) ==
    shs[CHOOSE k \in 1..Len(shs) : shs[k].id = shelf_id].books

\* PUT /shelves/{id} {"books": ids}, as the server applies it.
PutShelfBooks(shs, shelf_id, ids) ==
    [k \in 1..Len(shs) |->
        IF shs[k].id = shelf_id THEN [shs[k] EXCEPT !.books = ids]
        ELSE shs[k]]

\* Lines 369 and 440 with the list read from the shelf left out.
WithBook_Alone(current, id) == <<id>>

\* Lines 369 and 440: sorted(current + [id]), for an id that is not in
\* current (lines 368 and 436).
WithBook(current, id) == SortedSeq(Range(current) \cup {id})

\* ensure_holding_book(api). failAt is the request of this call that
\* raises (0: none); the result holds the returned id (raised: an exception
\* left the function instead), the remote shelves and books after the call
\* and the requests issued. The function has no apply parameter.
ensure_holding_book(shs, bks, failAt) ==
    LET getShelves == Request("GET", "/shelves", 0, NoBody)
        getBooks == Request("GET", "/books", 0, NoBody)
        post == Request("POST", "/books", 0, [name |-> HOLDING_BOOK_NAME])
        shelf_id == FirstNamed(shs, HOLDING_SHELF_NAME)
        found == FirstNamed(bks, HOLDING_BOOK_NAME)
        reqs3 == <<getShelves, getBooks>> \o
                 (IF found = 0 THEN <<post>> ELSE <<>>)
        id == IF found = 0 THEN NewBookId(bks) ELSE found
        bks1 == IF found = 0 THEN Append(bks, Book(id, HOLDING_BOOK_NAME))
                ELSE bks
        getShelf == Request("GET", "/shelves", shelf_id, NoBody)
        current == ShelfBooks(shs, shelf_id)
        ids == WithBook(current, id)
        put == Request("PUT", "/shelves", shelf_id, [books |-> ids])
        fail(bs, reqs) == [raised |-> TRUE, ret |-> 0, shelves |-> shs,
                           books |-> bs, reqs |-> reqs]
    IN  IF failAt = 1 THEN fail(bks, <<getShelves>>)
        ELSE IF shelf_id = 0 THEN fail(bks, <<getShelves>>)
        ELSE IF failAt = 2 THEN fail(bks, <<getShelves, getBooks>>)
        ELSE IF found = 0 /\ failAt = 3 THEN fail(bks, reqs3)
        ELSE IF failAt = Len(reqs3) + 1
        THEN fail(bks1, Append(reqs3, getShelf))
        ELSE IF id \in Range(current)
        THEN [raised |-> FALSE, ret |-> id, shelves |-> shs, books |-> bks1,
              reqs |-> Append(reqs3, getShelf)]
        ELSE IF failAt = Len(reqs3) + 2
        THEN fail(bks1, reqs3 \o <<getShelf, put>>)
        ELSE [raised |-> FALSE, ret |-> id,
              shelves |-> PutShelfBooks(shs, shelf_id, ids), books |-> bks1,
              reqs |-> reqs3 \o <<getShelf, put>>]

\* The pages list GET /books/{id} gives for a chapter.
ChapterPages(pgs, ch_id) == {p \in DOMAIN pgs : pgs[p].chapter_id = ch_id}

\* Lines 562-568 without 'len(c.get("pages")) == 0'.
EmptyChaptersOf_AnyChapter(chs, pgs, bid) ==
    LET IsHere(c) == c.book_id = bid
    IN  SelectSeq(chs, IsHere)

\* Lines 562-568: the chapters of the book's contents whose pages list has
\* length 0, in contents order.
EmptyChaptersOf(chs, pgs, bid) ==
    LET IsEmptyHere(c) == c.book_id = bid /\ ChapterPages(pgs, c.id) = {}
    IN  SelectSeq(chs, IsEmptyHere)

\* Line 586: f"[From {bid}] {ch_name}"
RenamedFrom_Untagged(bid, ch_name) == ch_name
RenamedFrom(bid, ch_name) == "[From " \o ToString(bid) \o "] " \o ch_name

\* PUT /chapters/{id} {"book_id": b} or {"book_id": b, "name": n}, as the
\* server applies it.
PutChapter(chs, ch_id, body) ==
    [k \in 1..Len(chs) |->
        IF chs[k].id # ch_id THEN chs[k]
        ELSE IF "name" \in DOMAIN body
        THEN [chs[k] EXCEPT !.book_id = body.book_id, !.name = body.name]
        ELSE [chs[k] EXCEPT !.book_id = body.book_id]]

\* Lines 591-599 with the entry appended twice.
RecordFailure_Twice(fs, entry) == Append(Append(fs, entry), entry)

\* Lines 591-599: failures.append({...})
RecordFailure(fs, entry) == Append(fs, entry)

\* What the search of the server returns for a query: the pages and the
\* chapters whose name holds the query.
NameHolds(n, query) ==
    \/ n = query
    \/ n = "Test Plan" /\ query = "Test"

SearchResults(pgs, chs, query) ==
    {[type |-> "page", id |-> p, name |-> pgs[p].name] :
        p \in {q \in DOMAIN pgs : NameHolds(pgs[q].name, query)}} \cup
    {[type |-> "chapter", id |-> chs[k].id, name |-> chs[k].name] :
        k \in {j \in 1..Len(chs) : NameHolds(chs[j].name, query)}}

\* find_pages_by_exact_name without 'item.get("name") == name'.
find_pages_by_exact_name_AnyHit(res, name) ==
    SortedSeq({item.id : item \in {i \in res : i.type = "page"}})

\* find_pages_by_exact_name(api, name), given the search's answer.
find_pages_by_exact_name(res, name) ==
    SortedSeq({item.id : item \in
                  {i \in res : i.type = "page" /\ i.name = name}})

\* Lines 644-646: the delete request is sent.
ShouldDelete(empty, app) == empty /\ app

\* DELETE /pages/{id}, as the server applies it.
DeletePage(pgs, pid) == [p \in DOMAIN pgs \ {pid} |-> pgs[p]]

\* How many requests of a call may raise: the budget that is left.
LibFailChoices(n) == {k \in 0..n : k = 0 \/ failures < MaxLibFailures}
Raise(phase, call) == [phase |-> phase, call |-> call]

\* ----------------------------------------------- organize-library: main
LibraryInit ==
    /\ \E lib \in InitialLibrary :
        /\ shelves = lib.shelves
        /\ books = lib.books
        /\ chapters = LibraryChapters(lib.books)
    /\ \E body \in JunkBodies : lib_pages = LibraryPages(body)
    /\ pc = "idle"
    /\ apply = FALSE
    /\ run = 0
    /\ report = NoReport
    /\ failures = 0
    /\ requests = <<>>
    /\ holding_book_id = 0
    /\ sweep = NoSweep
    /\ junk = NoJunk
    /\ attempts = <<>>
    /\ classified = EmptyMap
    /\ error = NoError
    /\ at_start = [shelves |-> shelves, books |-> books,
                   chapters |-> chapters, pages |-> lib_pages]
    /\ page_chapter = EmptyMap
    /\ targets = EmptyMap
    /\ order = <<>>
    /\ idx = 1
    /\ chapter_cache = EmptyMap
    /\ resolved_targets = EmptyMap
    /\ moves = <<>>
    /\ moved = 0
    /\ skipped = 0
    /\ ensure_calls = <<>>
    /\ move_calls = EmptyMap
    /\ last_call = NoCall
    /\ prev = NoPrev
    /\ ClassifyUnused
    /\ ClientUnused
    /\ DirectUnused
    /\ ShelveUnused
    /\ SeedUnused

\* main up to line 705, run with --skip-backup --skip-shelving
\* --skip-pages: the mode is read and the report is started.
LibraryStart(a) ==
    /\ pc \in {"idle", "done", "raised"}
    /\ run < MaxLibRuns
    /\ run' = run + 1
    /\ apply' = a
    /\ pc' = "holding"
    /\ report' = NoReport
    /\ requests' = <<>>
    /\ holding_book_id' = 0
    /\ sweep' = NoSweep
    /\ junk' = [NoJunk EXCEPT !.names = JunkNames]
    /\ attempts' = <<>>
    /\ classified' = EmptyMap
    /\ error' = NoError
    /\ at_start' = [shelves |-> shelves, books |-> books,
                    chapters |-> chapters, pages |-> lib_pages]
    /\ UNCHANGED <<shelves, books, chapters, lib_pages, failures>>
    /\ UNCHANGED outsideLibrary

\* Lines 706-709: holding_book_id = ensure_holding_book(api)
EnsureHoldingBook ==
    /\ pc = "holding"
    /\ \E failAt \in LibFailChoices(5) :
        LET r == ensure_holding_book(shelves, books, failAt)
        IN  /\ failAt > 0 => r.raised /\ Len(r.reqs) = failAt
            /\ shelves' = r.shelves
            /\ books' = r.books
            /\ requests' = requests \o r.reqs
            /\ failures' = failures + Raised(failAt > 0)
            /\ IF r.raised
               THEN /\ pc' = "raised"
                    /\ error' = Raise("holding", r.reqs[Len(r.reqs)].method)
                    /\ UNCHANGED holding_book_id
               ELSE /\ pc' = "sweep"
                    /\ holding_book_id' = r.ret
                    /\ UNCHANGED error
    /\ UNCHANGED <<chapters, lib_pages, apply, run, report, sweep, junk,
                   attempts, classified, at_start>>
    /\ UNCHANGED outsideLibrary

\* Where move_empty_chapters goes on once the containers of a book are
\* done: the next book, or the return of line 601.
AfterBook(book_ids) == IF book_ids = <<>> THEN "junk" ELSE "sweep_book"

\* Lines 551-556 of move_empty_chapters: GET /books.
SweepListBooks ==
    /\ pc = "sweep"
    /\ requests' = Append(requests, Request("GET", "/books", 0, NoBody))
    /\ \E failAt \in LibFailChoices(1) :
        /\ failures' = failures + failAt
        /\ IF failAt = 1
           THEN /\ pc' = "raised"
                /\ error' = Raise("sweep", "GET /books")
                /\ UNCHANGED sweep
           ELSE /\ sweep' = [NoSweep EXCEPT !.book_ids =
                                [k \in 1..Len(books) |-> books[k].id]]
                /\ pc' = AfterBook(sweep'.book_ids)
                /\ UNCHANGED error
    /\ UNCHANGED <<shelves, books, chapters, lib_pages, apply, run, report,
                   holding_book_id, junk, attempts, classified, at_start>>
    /\ UNCHANGED outsideLibrary

\* Lines 558-570: one iteration of "for bid in book_ids" up to the loop
\* over empty_chapters.
SweepReadBook ==
    /\ pc = "sweep_book"
    /\ LET bid == Head(sweep.book_ids)
           rest == Tail(sweep.book_ids)
           found == EmptyChaptersOf(chapters, lib_pages, bid)
       IN  IF bid = holding_book_id
           THEN /\ sweep' = [sweep EXCEPT !.book_ids = rest]
                /\ pc' = AfterBook(rest)
                /\ UNCHANGED <<requests, failures, error>>
           ELSE /\ requests' =
                     Append(requests, Request("GET", "/books", bid, NoBody))
                /\ \E failAt \in LibFailChoices(1) :
                    /\ failures' = failures + failAt
                    /\ IF failAt = 1
                       THEN /\ pc' = "raised"
                            /\ error' = Raise("sweep", "GET /books/{id}")
                            /\ UNCHANGED sweep
                       ELSE /\ UNCHANGED error
                            /\ IF found = <<>>
                               THEN /\ sweep' = [sweep EXCEPT !.book_ids = rest]
                                    /\ pc' = AfterBook(rest)
                               ELSE /\ sweep' = [sweep EXCEPT
                                                    !.empty_chapters = found]
                                    /\ pc' = "sweep_chapter"
    /\ UNCHANGED <<shelves, books, chapters, lib_pages, apply, run, report,
                   holding_book_id, junk, attempts, classified, at_start>>
    /\ UNCHANGED outsideLibrary

\* Lines 572-599: one iteration of "for ch in empty_chapters". fails is the
\* number of relocation requests of this container that raise.
SweepChapter ==
    /\ pc = "sweep_chapter"
    /\ LET bid == Head(sweep.book_ids)
           ch == Head(sweep.empty_chapters)
           restCh == Tail(sweep.empty_chapters)
           restBooks == IF restCh = <<>> THEN Tail(sweep.book_ids)
                        ELSE sweep.book_ids
           direct_put == [book_id |-> holding_book_id]
           retry == [book_id |-> holding_book_id,
                     name |-> RenamedFrom(bid, ch.name)]
           put(body) == Request("PUT", "/chapters", ch.id, body)
           entry == [book_id |-> bid, chapter_id |-> ch.id,
                     chapter |-> ch.name, error |-> "PUT /chapters failed"]
           Attempt(d, r) == [chapter_id |-> ch.id, book_id |-> bid,
                             direct |-> d, retry |-> r]
       IN  /\ pc' = IF restCh = <<>> THEN AfterBook(restBooks)
                    ELSE "sweep_chapter"
           /\ IF ~apply
              THEN /\ sweep' = [sweep EXCEPT !.moved = @ + 1,
                                   !.empty_chapters = restCh,
                                   !.book_ids = restBooks]
                   /\ attempts' = Append(attempts, Attempt("none", "none"))
                   /\ UNCHANGED <<chapters, requests, failures>>
              ELSE \E fails \in 0..2 :
                   /\ failures + fails <= MaxLibFailures
                   /\ failures' = failures + fails
                   /\ requests' = requests \o
                        (IF fails = 0 THEN <<put(direct_put)>>
                         ELSE <<put(direct_put), put(retry)>>)
                   /\ chapters' =
                        IF fails = 0 THEN PutChapter(chapters, ch.id, direct_put)
                        ELSE IF fails = 1
                        THEN PutChapter(chapters, ch.id, retry)
                        ELSE chapters
                   /\ attempts' = Append(attempts,
                        IF fails = 0 THEN Attempt("ok", "none")
                        ELSE IF fails = 1 THEN Attempt("failed", "ok")
                        ELSE Attempt("failed", "failed"))
                   /\ sweep' = [sweep EXCEPT
                        !.moved = IF fails < 2 THEN @ + 1 ELSE @,
                        !.renamed = IF fails = 1 THEN @ + 1 ELSE @,
                        !.failures = IF fails = 2 THEN RecordFailure(@, entry)
                                     ELSE @,
                        !.empty_chapters = restCh,
                        !.book_ids = restBooks]
    /\ UNCHANGED <<shelves, books, lib_pages, apply, run, report,
                   holding_book_id, junk, classified, error, at_start>>
    /\ UNCHANGED outsideLibrary

\* Where delete_junk_pages goes on once the pages of a name are done: the
\* next name, or the return of line 651.
AfterName(names) == IF names = <<>> THEN "report" ELSE "junk"

\* Line 633-634: one iteration of 'for name in ("New Page", "Test")' up to
\* the loop over the ids find_pages_by_exact_name returns.
JunkSearch ==
    /\ pc = "junk"
    /\ LET name == Head(junk.names)
           rest == Tail(junk.names)
           res == SearchResults(lib_pages, chapters, name)
           pids == find_pages_by_exact_name(res, name)
       IN  /\ requests' =
                Append(requests, Request("GET", "/search", 0,
                                         [query |-> name]))
           /\ \E failAt \in LibFailChoices(1) :
               /\ failures' = failures + failAt
               /\ IF failAt = 1
                  THEN /\ pc' = "raised"
                       /\ error' = Raise("junk", "GET /search")
                       /\ UNCHANGED junk
                  ELSE /\ UNCHANGED error
                       /\ IF pids = <<>>
                          THEN /\ junk' = [junk EXCEPT !.names = rest]
                               /\ pc' = AfterName(rest)
                          ELSE /\ junk' = [junk EXCEPT !.pids = pids]
                               /\ pc' = "junk_page"
    /\ UNCHANGED <<shelves, books, chapters, lib_pages, apply, run, report,
                   holding_book_id, sweep, attempts, classified, at_start>>
    /\ UNCHANGED outsideLibrary

\* Lines 635-649: one iteration of "for pid in find_pages_by_exact_name".
JunkPage ==
    /\ pc = "junk_page"
    /\ \E failAt \in LibFailChoices(2) :
        LET pid == Head(junk.pids)
            name == Head(junk.names)
            restPids == Tail(junk.pids)
            restNames == IF restPids = <<>> THEN Tail(junk.names)
                         ELSE junk.names
            get == Request("GET", "/pages", pid, NoBody)
            delete == Request("DELETE", "/pages", pid, NoBody)
            page == lib_pages[pid]
            empty == is_effectively_empty_page(page)
            entry == [id |-> pid, name |-> name, book_id |-> page.book_id,
                      chapter_id |-> page.chapter_id, empty |-> empty]
            sends == empty /\ ShouldDelete(empty, apply)
        IN  /\ failAt = 2 => sends
            /\ failures' = failures + Raised(failAt > 0)
            /\ requests' = requests \o
                 (IF failAt # 1 /\ sends THEN <<get, delete>> ELSE <<get>>)
            /\ classified' = IF failAt = 1 THEN classified
                             ELSE classified @@ (pid :> empty)
            /\ lib_pages' = IF failAt = 0 /\ sends
                            THEN DeletePage(lib_pages, pid) ELSE lib_pages
            /\ IF failAt > 0
               THEN /\ pc' = "raised"
                    /\ error' = Raise("junk", IF failAt = 1
                                              THEN "GET /pages/{id}"
                                              ELSE "DELETE /pages/{id}")
                    /\ UNCHANGED junk
               ELSE /\ UNCHANGED error
                    /\ pc' = IF restPids = <<>> THEN AfterName(restNames)
                             ELSE "junk_page"
                    /\ junk' = [junk EXCEPT
                         !.deleted = IF empty THEN Append(@, entry) ELSE @,
                         !.kept = IF empty THEN @ ELSE Append(@, entry),
                         !.pids = restPids,
                         !.names = restNames]
    /\ UNCHANGED <<shelves, books, chapters, apply, run, report,
                   holding_book_id, sweep, attempts, at_start>>
    /\ UNCHANGED outsideLibrary

\* Lines 733-740: the report is written and main returns 0.
LibraryWriteReport ==
    /\ pc = "report"
    /\ report' = [written |-> TRUE, apply |-> apply,
                  holding_book_id |-> holding_book_id,
                  empty_chapters |-> [moved |-> sweep.moved,
                                      renamed |-> sweep.renamed,
                                      failures |-> sweep.failures],
                  junk_pages |-> [deleted |-> junk.deleted,
                                  kept |-> junk.kept]]
    /\ pc' = "done"
    /\ UNCHANGED <<shelves, books, chapters, lib_pages, apply, run, failures,
                   requests, holding_book_id, sweep, junk, attempts,
                   classified, error, at_start>>
    /\ UNCHANGED outsideLibrary

LibraryNext ==
    \/ \E a \in BOOLEAN : LibraryStart(a)
    \/ EnsureHoldingBook
    \/ SweepListBooks
    \/ SweepReadBook
    \/ SweepChapter
    \/ JunkSearch
    \/ JunkPage
    \/ LibraryWriteReport

SpecLibrary == LibraryInit /\ [][LibraryNext]_vars

\* ----------------------------------------- organize-library: properties
LibraryRemote == [shelves |-> shelves, books |-> books,
                  chapters |-> chapters, pages |-> lib_pages]

\* move_empty_chapters has returned its result to main.
SweepReturned ==
    \/ pc \in {"junk", "junk_page", "report", "done"}
    \/ pc = "raised" /\ error.phase = "junk"

\* The containers that qualified when this run began: the chapters without
\* pages outside the holding book.
Qualifying ==
    {c.id : c \in {d \in Range(at_start.chapters) :
        /\ d.book_id # holding_book_id
        /\ ChapterPages(at_start.pages, d.id) = {}}}

DoubleFailed(a) == a.direct = "failed" /\ a.retry = "failed"
ChapterIds(recs) == [k \in 1..Len(recs) |-> recs[k].chapter_id]
DeleteRequests == {requests[k].id :
                      k \in {j \in 1..Len(requests) :
                                requests[j].method = "DELETE"}}
EntryIds(entries) == {entries[k].id : k \in 1..Len(entries)}

\* C2: a dry-run of main leaves the remote state as it was when the run
\* began, whether or not the holding book exists and is on the holding
\* shelf. (ensure_holding_book creates the book and updates the shelf in
\* either mode, so this does not hold.)
C2_DryRunLeavesRemoteUnchanged ==
    ~apply => LibraryRemote = at_start

\* C3: delete_junk_pages sends a delete request for a page only in apply
\* mode and only after is_effectively_empty_page classified that page empty
\* in this run; a page classified non-empty is still on the server,
\* unchanged, and is in the kept list and not in the deleted list.
C3_DeletesOnlyClassifiedEmptyInApply ==
    /\ \A pid \in DeleteRequests :
          apply /\ pid \in DOMAIN classified /\ classified[pid]
    /\ \A pid \in DOMAIN at_start.pages \ DOMAIN lib_pages :
          apply /\ pid \in DOMAIN classified /\ classified[pid]
    /\ \A pid \in DOMAIN classified :
          ~classified[pid] =>
              /\ pid \in DOMAIN lib_pages
              /\ lib_pages[pid] = at_start.pages[pid]
              /\ pid \notin DeleteRequests
              /\ pid \in EntryIds(junk.kept)
              /\ pid \notin EntryIds(junk.deleted)

\* An apply run has deleted one page with a junk title that was classified
\* empty and kept another, with the same title, that was classified
\* non-empty.
C3_Witness ==
    /\ apply
    /\ pc = "done"
    /\ \E p, q \in DOMAIN classified :
          /\ classified[p] /\ ~classified[q]
          /\ at_start.pages[p].name = at_start.pages[q].name
          /\ p \in DeleteRequests /\ p \notin DOMAIN lib_pages
          /\ q \in EntryIds(report.junk_pages.kept)

\* The books whose contents this run's sweep has read and whose containers
\* it has gone through.
BooksSwept ==
    LET reads == {k \in 1..Len(requests) :
                     /\ requests[k].method = "GET"
                     /\ requests[k].path = "/books"
                     /\ requests[k].id > 0}
        failed == IF pc = "raised" /\ error = Raise("sweep", "GET /books/{id}")
                  THEN {requests[Len(requests)].id} ELSE {}
        current == IF pc = "sweep_chapter" THEN {Head(sweep.book_ids)}
                   ELSE {}
    IN  {requests[k].id : k \in reads} \ (failed \cup current)

\* C5: in an apply-mode sweep no failed relocation ends the sweep; the
\* failures list holds exactly one entry, naming the container and the
\* error, for each container whose direct relocation and renamed retry
\* both failed, in the order they were attempted; every qualifying
\* container of a book the sweep has gone through has been attempted, the
\* ones after a doubly failed one included, and none twice; so when the
\* sweep returns every qualifying container has been attempted once.
C5_DoubleFailureIsRecordedAndSweepGoesOn ==
    apply =>
        /\ (pc = "raised" /\ error.phase = "sweep") =>
              error.call \in {"GET /books", "GET /books/{id}"}
        /\ ChapterIds(sweep.failures) =
              ChapterIds(SelectSeq(attempts, DoubleFailed))
        /\ \A k \in 1..Len(sweep.failures) :
              sweep.failures[k].error = "PUT /chapters failed"
        /\ sweep.moved + Len(sweep.failures) = Len(attempts)
        /\ Range(ChapterIds(attempts)) \subseteq Qualifying
        /\ Len(attempts) = Cardinality(Range(ChapterIds(attempts)))
        /\ \A c \in Range(at_start.chapters) :
              (c.id \in Qualifying /\ c.book_id \in BooksSwept) =>
                  c.id \in Range(ChapterIds(attempts))
        /\ SweepReturned => Range(ChapterIds(attempts)) = Qualifying

\* An apply-mode sweep over three containers has returned: both attempts
\* for the second failed, the third was relocated, and there is one
\* failure.
C5_Witness ==
    /\ apply
    /\ SweepReturned
    /\ Len(attempts) = 3
    /\ DoubleFailed(attempts[2])
    /\ attempts[3].direct = "ok"
    /\ Len(sweep.failures) = 1
    /\ sweep.failures[1].chapter_id = attempts[2].chapter_id

\* C6: in the sweep and in the junk detector a failed remote call aborts
\* only its item, so that no exception leaves either batch. (The book
\* listing, the read of a book's contents, the title search, the fetch of
\* a page and the delete are not guarded, so this does not hold.)
C6_FailedCallAbortsOnlyItsItem ==
    ~(pc = "raised" /\ error.phase \in {"sweep", "junk"})

\* ------------------------------------------- BookStackApi.request: data
\* Calls through one BookStackApi instance.
MaxCalls == 2

max_attempts == 5
\* min_interval = 0.20 seconds, in ticks of a tenth of a second.
min_interval == 2
Ticks(seconds) == seconds * 10
\* Any time longer than min_interval.
LongAgo == min_interval + 1

Scripts == {"organize-inbox", "organize-library", "seed-empty-books",
            "extract-inbox"}
\* Only extract-inbox calls self._sleep_rate_limit() before each attempt.
RateLimited(s) == s = "extract-inbox"
\* The slice bound of the snippet: 250 in seed-empty-books, 200 elsewhere.
SnippetLimit(s) == IF s = "seed-empty-books" THEN 250 ELSE 200

\* Response bodies.
TextJson == <<"{", "\"", "i", "d", "\"", ":", "7", "}">>
TextHtml == Elem(<<"h", "1">>, Rep("a", 3))
TextShort == <<" ">> \o Rep("e", 4) \o <<"\n">> \o Rep("f", 4) \o <<"\n">>
TextLong ==
    <<"\n">> \o Rep("e", 120) \o <<"\n">> \o Rep("f", 140) \o <<" ">>

\* Retry-After headers: absent (<<>>, as is an empty one), "5", "120",
\* "0", "-3", " 7 ", "1.5" and "soon".
RetryAfterHeaders ==
    {<<>>, <<"5">>, <<"1", "2", "0">>, <<"0">>, <<"-", "3">>,
     <<" ", "7", " ">>, <<"1", ".", "5">>, <<"s", "o", "o", "n">>}

Response(st, ra, text) == [status |-> st, retry_after |-> ra, text |-> text]
Responses ==
    {Response(200, <<>>, t) : t \in {<<>>, BodyBlank, TextJson, TextHtml}}
    \cup {Response(404, <<>>, t) : t \in {TextShort, TextLong}}
    \cup {Response(403, <<>>, <<>>)}
    \cup {Response(429, ra, TextShort) : ra \in RetryAfterHeaders}
    \cup {Response(429, <<>>, TextLong), Response(500, <<>>, TextLong),
          Response(503, <<>>, TextShort)}

\* Ticks an HTTP request, or the caller between two calls, may take.
Durations == {0, 1, LongAgo}

\* ---------------------------------------- BookStackApi.request: mutants
\* The 429 test without "attempt < max_attempts".
RetryOn429_Unbounded(status, att) == status = 429

\* The 5xx test without "attempt < max_attempts".
RetryOn5xx_Unbounded(status, att) == 500 <= status /\ status < 600

\* The snippet without its slice.
Snippet_Unbounded(text, limit) == text

\* The delay after a 429 without a look at Retry-After.
RateLimitDelay_IgnoresHeader(retry_after, att) ==
    IF att >= 6 THEN 60 ELSE 2 ^ att

\* Line 108 with the exponent of line 102: min(30, 2 ** attempt).
ServerErrorDelay_ExponentOf429(att) == IF att >= 5 THEN 30 ELSE 2 ^ att

\* The empty-body test without strip().
IsBlank_OnlyEmpty(text) == text = <<>>

\* ------------------------------------- BookStackApi.request: operations
Pow2(n) == IF n <= 0 THEN 1 ELSE 2 ^ n

DigitValue(c) == CHOOSE v \in 0..9 : ToString(v) = c

RECURSIVE DecimalValue(_)
DecimalValue(ds) ==
    IF ds = <<>> THEN 0
    ELSE 10 * DecimalValue(SubSeq(ds, 1, Len(ds) - 1)) + DigitValue(ds[Len(ds)])

\* int(s): surrounding whitespace is dropped, a sign may lead, the rest are
\* digits; anything else raises ValueError (ok = FALSE).
ParseInt(s) ==
    LET t == Strip(s)
        signed == t # <<>> /\ t[1] \in {"+", "-"}
        ds == IF signed THEN Tail(t) ELSE t
        ok == ds # <<>> /\ \A k \in 1..Len(ds) : ds[k] \in Digits
    IN  [ok |-> ok,
         value |-> IF ~ok THEN 0
                   ELSE IF signed /\ t[1] = "-" THEN 0 - DecimalValue(ds)
                   ELSE DecimalValue(ds)]

\* Lines 96-103: the delay after a 429.
RateLimitDelay(retry_after, att) ==
    LET parsed == ParseInt(retry_after)
        delay == IF retry_after # <<>> /\ parsed.ok THEN parsed.value ELSE 0
    IN  IF delay <= 0 THEN Min({60, Pow2(att)}) ELSE delay

\* Line 108: min(30, 2 ** (attempt - 1))
ServerErrorDelay(att) == Min({30, Pow2(att - 1)})

\* (resp.text or "").strip().replace("\n", " ")[:limit]
Snippet(text, limit) ==
    LET t == Strip(text)
        u == [k \in 1..Len(t) |-> IF t[k] = "\n" THEN " " ELSE t[k]]
    IN  SubSeq(u, 1, Min({limit, Len(u)}))

\* Line 119: not (resp.text or "").strip()
IsBlank(text) == Strip(text) = <<>>

\* resp.ok
Ok(status) == status < 400

\* resp.json() raises on a body that is not JSON.
IsJson(text) == Strip(text) # <<>> /\ Strip(text)[1] \in {"{", "["}

\* Line 95: the retry test of a 429.
RetryOn429(status, att) == status = 429 /\ att < max_attempts

\* Line 107: the retry test of a 5xx.
RetryOn5xx(status, att) == 500 <= status /\ status < 600 /\ att < max_attempts

\* One iteration of the loop of request (lines 92-120) on the response
\* resp: what it sleeps, and whether it goes round again, returns or raises.
request_step(s, att, resp) ==
    IF RetryOn429(resp.status, att)
    THEN [next |-> "retry", outcome |-> NoOutcome,
          sleep |-> [seconds |-> RateLimitDelay(resp.retry_after, att),
                     why |-> "429"]]
    ELSE IF RetryOn5xx(resp.status, att)
    THEN [next |-> "retry", outcome |-> NoOutcome,
          sleep |-> [seconds |-> ServerErrorDelay(att), why |-> "5xx"]]
    ELSE IF ~Ok(resp.status)
    THEN [next |-> "raised", sleep |-> NoSleep,
          outcome |-> [kind |-> "RuntimeError", status |-> resp.status,
                       snippet |-> Snippet(resp.text, SnippetLimit(s))]]
    ELSE IF IsBlank(resp.text)
    THEN [next |-> "returned", sleep |-> NoSleep,
          outcome |-> [kind |-> "None"]]
    ELSE IF IsJson(resp.text)
    THEN [next |-> "returned", sleep |-> NoSleep,
          outcome |-> [kind |-> "json", text |-> resp.text]]
    ELSE [next |-> "raised", sleep |-> NoSleep,
          outcome |-> [kind |-> "JSONDecodeError"]]

\* _sleep_rate_limit: the sleep before an attempt.
RateLimitSleep(s, since) ==
    IF RateLimited(s) /\ since < min_interval THEN min_interval - since
    ELSE 0

\* ------------------------------------------ BookStackApi.request: calls
ClientInit ==
    /\ script \in Scripts
    /\ api_call = [state |-> "idle", n |-> 0]
    /\ attempt = 0
    /\ last_resp = NoResponse
    /\ slept = NoSleep
    /\ outcome = NoOutcome
    /\ elapsed = LongAgo
    /\ last_gap = LongAgo
    /\ NoRun
    /\ InboxUnused
    /\ LibraryUnused
    /\ ClassifyUnused
    /\ DirectUnused
    /\ ShelveUnused
    /\ SeedUnused

\* request(method, path, body) is entered, some time after the last call.
Call ==
    /\ api_call.state \in {"idle", "returned", "raised"}
    /\ api_call.n < MaxCalls
    /\ api_call' = [state |-> "running", n |-> api_call.n + 1]
    /\ attempt' = 1
    /\ last_resp' = NoResponse
    /\ slept' = NoSleep
    /\ outcome' = NoOutcome
    /\ \E d \in Durations : elapsed' = Min({LongAgo, elapsed + d})
    /\ UNCHANGED <<script, last_gap>>
    /\ UNCHANGED <<sharedVars, inboxVars, libraryVars, classifyVars,
                   directVars, seedVars, shelveVars>>

\* One iteration of "for attempt in range(1, max_attempts + 1)".
Attempt ==
    /\ api_call.state = "running"
    /\ \E resp \in Responses, d \in Durations :
        LET wait == RateLimitSleep(script, elapsed)
            r == request_step(script, attempt, resp)
        IN  /\ last_gap' = Min({LongAgo, elapsed + wait})
            /\ last_resp' = resp
            /\ slept' = r.sleep
            /\ elapsed' = Min({LongAgo, d + Ticks(r.sleep.seconds)})
            /\ outcome' = r.outcome
            /\ IF r.next = "retry"
               THEN /\ attempt' = attempt + 1
                    /\ UNCHANGED api_call
               ELSE /\ api_call' = [api_call EXCEPT !.state = r.next]
                    /\ UNCHANGED attempt
    /\ UNCHANGED script
    /\ UNCHANGED <<sharedVars, inboxVars, libraryVars, classifyVars,
                   directVars, seedVars, shelveVars>>

ClientNext == Call \/ Attempt

SpecClient == ClientInit /\ [][ClientNext]_vars

\* --------------------------------------- BookStackApi.request: properties
Retryable(status) == status = 429 \/ (500 <= status /\ status < 600)
Done == api_call.state \in {"returned", "raised"}
\* The HTTP responses this call has received.
Received == IF api_call.state = "running" THEN attempt - 1 ELSE attempt
\* The whole seconds a Retry-After header of the model asks for.
AskedSeconds ==
    (<<"5">> :> 5) @@ (<<"1", "2", "0">> :> 120) @@ (<<" ", "7", " ">> :> 7)

\* A character of a body as an error message shows it.
OnOneLine(c) == IF c = "\n" THEN " " ELSE c

\* C13: a call makes at most 5 HTTP attempts and then has returned or
\* raised; an attempt after the first follows only a 429 or a 5xx
\* response, in whatever order the two kinds arrive.
C13_AtMostFiveAttempts ==
    /\ Received <= 5
    /\ api_call.state = "running" => attempt <= 5
    /\ Received = 5 => Done
    /\ Done => outcome # NoOutcome
    /\ (api_call.state = "running" /\ attempt > 1) =>
          /\ Retryable(last_resp.status)
          /\ slept # NoSleep

\* A call has returned a result on its fifth attempt.
C13_Witness ==
    /\ api_call.state = "returned"
    /\ attempt = 5
    /\ outcome.kind = "json"

\* C14: a response with a failure status other than 429 and 5xx ends the
\* call at once, on whichever attempt it arrives: the call has raised, no
\* sleep followed the response, and the error carries the status and the
\* start of the stripped body, at most 200 characters of it (250 in
\* seed-empty-books).
C14_NonRetryableRaisesAtOnce ==
    (last_resp.status >= 400 /\ ~Retryable(last_resp.status)) =>
        /\ api_call.state = "raised"
        /\ slept = NoSleep
        /\ outcome.kind = "RuntimeError"
        /\ outcome.status = last_resp.status
        /\ Len(outcome.snippet) <=
              (IF script = "seed-empty-books" THEN 250 ELSE 200)
        /\ Len(outcome.snippet) <= Len(Strip(last_resp.text))
        /\ \A k \in 1..Len(outcome.snippet) :
              outcome.snippet[k] = OnOneLine(Strip(last_resp.text)[k])

\* A 404 with a long body has arrived on the third attempt: the call has
\* raised with a snippet of exactly 200 characters.
C14_Witness ==
    /\ api_call.state = "raised"
    /\ attempt = 3
    /\ last_resp.status = 404
    /\ Len(Strip(last_resp.text)) > 250
    /\ Len(outcome.snippet) = 200

\* C15: a call whose fifth response is retryable, as the four before it
\* were, has raised: the error carries the status of that fifth response
\* and the start of its body, and no sleep followed the response.
C15_ExhaustedRetriesRaiseWithLastResponse ==
    (Received >= 5 /\ Retryable(last_resp.status)) =>
        /\ api_call.state = "raised"
        /\ attempt = 5
        /\ slept = NoSleep
        /\ outcome.kind = "RuntimeError"
        /\ outcome.status = last_resp.status
        /\ Len(outcome.snippet) =
              Min({Len(Strip(last_resp.text)),
                   IF script = "seed-empty-books" THEN 250 ELSE 200})
        /\ \A k \in 1..Len(outcome.snippet) :
              outcome.snippet[k] = OnOneLine(Strip(last_resp.text)[k])

\* The fifth retryable response of a call was a 429 that names a delay.
C15_Witness ==
    /\ api_call.state = "raised"
    /\ attempt = 5
    /\ last_resp.status = 429
    /\ last_resp.retry_after = <<"5">>
    /\ outcome.status = 429

\* The exponential backoff after the 429 that answered attempt att.
Backoff429(att) == IF att >= 6 THEN 60 ELSE 2 ^ att

\* C16 as stated: after a 429 that is not the last attempt the client waits
\* the delay the server names whenever one is present and numeric, and the
\* exponential backoff only when it is absent or not numeric.
C16_NumericDelayAlwaysObeyed ==
    slept.why = "429" =>
        LET h == last_resp.retry_after
        IN  IF h \in DOMAIN AskedSeconds \cup {<<"0">>}
            THEN slept.seconds = (AskedSeconds @@ (<<"0">> :> 0))[h]
            ELSE slept.seconds = Backoff429(attempt - 1)

\* C16: after a 429 that is not the last attempt the client waits the delay
\* the server names when it is a whole number of seconds greater than zero,
\* and the exponential backoff (2^attempt, at most 60) in every other case:
\* no header, a header that is not an integer, zero, or a negative number.
C16_PositiveIntegerDelayObeyed ==
    slept.why = "429" =>
        LET h == last_resp.retry_after
        IN  /\ last_resp.status = 429
            /\ api_call.state = "running"
            /\ IF h \in DOMAIN AskedSeconds
               THEN slept.seconds = AskedSeconds[h]
               ELSE slept.seconds = Backoff429(attempt - 1)

\* A 429 that asked for 120 seconds was obeyed, and the call goes on.
C16_Witness ==
    /\ slept = [seconds |-> 120, why |-> "429"]
    /\ last_resp.retry_after = <<"1", "2", "0">>
    /\ api_call.state = "running"
    /\ attempt = 3

\* C17 as stated: two consecutive HTTP requests of one client are issued at
\* least the minimum interval apart.
C17_MinimumSpacing == last_gap >= min_interval

\* C18: a success response with an empty or whitespace-only body ends the
\* call with the result None, on whichever attempt it arrives: nothing is
\* raised, no sleep follows, and no further attempt is made.
C18_BlankBodyReturnsNone ==
    (last_resp.status \in 200..299 /\
     \A k \in 1..Len(last_resp.text) : last_resp.text[k] \in Whitespace) =>
        /\ api_call.state = "returned"
        /\ outcome = [kind |-> "None"]
        /\ slept = NoSleep

\* A whitespace-only 200 has arrived on the second attempt.
C18_Witness ==
    /\ api_call.state = "returned"
    /\ attempt = 2
    /\ last_resp.status = 200
    /\ last_resp.text # <<>>
    /\ outcome.kind = "None"

\* ---------------------------------- organize-library: move_direct_pages
\* "00. Inbox (Unsorted)"
INBOX_CHAPTER_NAME ==
    <<"0", "0", ".", " ", "I", "n", "b", "o", "x", " ", "(", "U", "n", "s",
      "o", "r", "t", "e", "d", ")">>

DirectBooks == <<Book(1, "CAD"), Book(2, "Training")>>

\* Book 1 has a chapter the classifier can choose; each book of withInbox
\* has its inbox chapter already.
DirectChapters(withInbox) ==
    <<Ch(11, 1, NameAutocadCoreSkills)>> \o
    (IF 1 \in withInbox THEN <<Ch(12, 1, INBOX_CHAPTER_NAME)>> ELSE <<>>) \o
    (IF 2 \in withInbox THEN <<Ch(22, 2, INBOX_CHAPTER_NAME)>> ELSE <<>>)

\* Two pages directly in book 1, one directly in book 2 and one inside a
\* chapter.
DirectPages(title) ==
    (1 :> Page(title, 1, 0, <<>>)) @@
    (2 :> Page(TitleNewPage, 1, 0, <<>>)) @@
    (3 :> Page(TitleOverview, 2, 0, <<>>)) @@
    (4 :> Page(TitleCoreSkills, 1, 11, <<>>))

\* Line 511 without "if inbox_id is None": the inbox is ensured for every
\* page without a match.
NeedsInbox_NoMemo(matched, inbox_id) == ~matched

\* Lines 507-511: no match, and no inbox known for this book yet.
NeedsInbox(matched, inbox_id) == ~matched /\ inbox_id = 0

\* Lines 513-514 without the test: the sentinel stays in inbox_id.
InboxIdOf_KeepsSentinel(ret) == ret

\* Lines 512-514: inbox_id = ensure_inbox_chapter(...), None (0) for -1.
InboxIdOf(ret) == IF ret = -1 THEN 0 ELSE ret

\* book.get("contents") of GET /books/{bid}: the chapters of the book and
\* the pages directly in it.
BookChapters(chs, bid) == SelectSeq(chs, LAMBDA c : c.book_id = bid)
DirectPageIds(pages, bid) ==
    SortedSeq({p \in DOMAIN pages :
                  pages[p].book_id = bid /\ pages[p].chapter_id = 0})

\* Lines 480-491: the candidates built from chapters_raw.
Candidates(contents) ==
    [k \in 1..Len(contents) |-> Candidate(contents[k].id, contents[k].name)]

\* ensure_inbox_chapter(api, book, apply) on the contents read earlier;
\* fails: the POST raises.
ensure_inbox_chapter(contents, bid, chs, app, fails) ==
    LET found == {k \in 1..Len(contents) :
                     contents[k].name = INBOX_CHAPTER_NAME}
        post == Request("POST", "/chapters", 0,
                        [book_id |-> bid, name |-> INBOX_CHAPTER_NAME])
        ch_id == NewChapterId(chs)
    IN  IF found # {}
        THEN [raised |-> FALSE, ret |-> contents[Min(found)].id,
              chapters |-> chs, reqs |-> <<>>]
        ELSE IF ~app
        THEN [raised |-> FALSE, ret |-> -1, chapters |-> chs, reqs |-> <<>>]
        ELSE IF fails
        THEN [raised |-> TRUE, ret |-> 0, chapters |-> chs,
              reqs |-> <<post>>]
        ELSE [raised |-> FALSE, ret |-> ch_id,
              chapters |-> Append(chs, Ch(ch_id, bid, INBOX_CHAPTER_NAME)),
              reqs |-> <<post>>]

DirectInit ==
    /\ books = DirectBooks
    /\ \E withInbox \in SUBSET {1, 2} : chapters = DirectChapters(withInbox)
    /\ \E title \in {TitleAutocadBasics, TitleNewPage} :
          lib_pages = DirectPages(title)
    /\ pc = "direct_idle"
    /\ apply = FALSE
    /\ run = 0
    /\ report = NoReport
    /\ failures = 0
    /\ requests = <<>>
    /\ at_start = [books |-> books, chapters |-> chapters,
                   pages |-> lib_pages]
    /\ direct = NoDirect
    /\ shelves = <<>>
    /\ holding_book_id = 0
    /\ sweep = NoSweep
    /\ junk = NoJunk
    /\ attempts = <<>>
    /\ classified = EmptyMap
    /\ error = NoError
    /\ InboxUnused
    /\ ClassifyUnused
    /\ ClientUnused
    /\ SeedUnused
    /\ ShelveUnused

\* What the actions of move_direct_pages leave alone.
outsideDirect == <<shelves, holding_book_id, sweep, junk, attempts,
                   classified, books, inboxVars, classifyVars, clientVars,
                   seedVars, shelveVars>>

\* main run with --skip-backup --skip-shelving --skip-empty-chapters
\* --skip-deletes, up to lines 467-468 of move_direct_pages: GET /books.
DirectStart(a) ==
    /\ pc \in {"direct_idle", "direct_done", "direct_raised"}
    /\ run < MaxLibRuns
    /\ run' = run + 1
    /\ apply' = a
    /\ report' = NoReport
    /\ at_start' = [books |-> books, chapters |-> chapters,
                    pages |-> lib_pages]
    /\ requests' = <<Request("GET", "/books", 0, NoBody)>>
    /\ \E fails \in LibFailChoices(1) :
        /\ failures' = failures + fails
        /\ IF fails = 1
           THEN /\ pc' = "direct_raised"
                /\ error' = Raise("direct", "GET /books")
                /\ direct' = NoDirect
           ELSE /\ pc' = "direct_book"
                /\ error' = NoError
                /\ direct' = [NoDirect EXCEPT
                                 !.book_ids = [k \in 1..Len(books) |->
                                                  books[k].id]]
    /\ UNCHANGED <<chapters, lib_pages>>
    /\ UNCHANGED outsideDirect

\* One iteration of "for bid in book_ids" up to line 495, or the return
\* of move_direct_pages when no book is left.
DirectReadBook ==
    /\ pc = "direct_book"
    /\ IF direct.book_ids = <<>>
       THEN /\ pc' = "direct_report"
            /\ UNCHANGED <<direct, requests, failures, error>>
       ELSE \E fails \in LibFailChoices(1) :
            LET bid == Head(direct.book_ids)
                contents == BookChapters(chapters, bid)
                direct_pages == DirectPageIds(lib_pages, bid)
            IN  /\ requests' =
                     Append(requests, Request("GET", "/books", bid, NoBody))
                /\ failures' = failures + fails
                /\ IF fails = 1
                   THEN /\ pc' = "direct_raised"
                        /\ error' = Raise("direct", "GET /books/{id}")
                        /\ UNCHANGED direct
                   ELSE /\ error' = NoError
                        /\ IF direct_pages = <<>>
                           THEN /\ pc' = "direct_book"
                                /\ direct' = [direct EXCEPT
                                     !.book_ids = Tail(direct.book_ids)]
                           ELSE /\ pc' = "direct_page"
                                /\ direct' = [direct EXCEPT
                                     !.contents = contents,
                                     !.chapters = Candidates(contents),
                                     !.pages = direct_pages,
                                     !.inbox_id = 0]
    /\ UNCHANGED <<chapters, lib_pages, apply, run, report, at_start>>
    /\ UNCHANGED outsideDirect

\* One iteration of "for p in direct_pages" (lines 500-540). failAt: the
\* request of the iteration that raises (1: the POST, 2: the PUT).
DirectPage ==
    /\ pc = "direct_page"
    /\ \E failAt \in LibFailChoices(2),
          found \in {best_chapter_for_page(lib_pages[Head(direct.pages)].name,
                                          direct.chapters)} :
        LET bid == Head(direct.book_ids)
            page_id == Head(direct.pages)
            matched == found.id # 0
            ensured == NeedsInbox(matched, direct.inbox_id)
            e == ensure_inbox_chapter(direct.contents, bid, chapters, apply,
                                      failAt = 1)
            inbox_id == IF ensured THEN InboxIdOf(e.ret) ELSE direct.inbox_id
            target_ch_id == IF matched THEN found.id ELSE inbox_id
            reqs1 == IF ensured THEN e.reqs ELSE <<>>
            put == Request("PUT", "/pages", page_id,
                           [chapter_id |-> target_ch_id])
            writes == target_ch_id # 0 /\ apply
            reqs == IF writes THEN Append(reqs1, put) ELSE reqs1
            raised1 == ensured /\ e.raised
            raised2 == ~raised1 /\ writes /\ failAt = 2
            last == Len(direct.pages) = 1
            step == [called |-> TRUE, page_id |-> page_id,
                     matched |-> matched, ensured |-> ensured,
                     ret |-> IF ensured THEN e.ret ELSE 0,
                     target |-> target_ch_id,
                     raised |-> raised1 \/ raised2, reqs |-> reqs]
        IN  /\ (failAt = 1) => raised1
            /\ (failAt = 2) => raised2
            /\ failures' = failures + Raised(failAt > 0)
            /\ IF raised1
               THEN /\ requests' = requests \o reqs1
                    /\ pc' = "direct_raised"
                    /\ error' = Raise("direct", "POST /chapters")
                    /\ direct' = [direct EXCEPT
                          !.last = [step EXCEPT !.reqs = reqs1]]
                    /\ UNCHANGED <<chapters, lib_pages>>
               ELSE /\ requests' = requests \o reqs
                    /\ chapters' = IF ensured THEN e.chapters ELSE chapters
                    /\ lib_pages' =
                         IF writes /\ ~raised2
                         THEN [lib_pages EXCEPT
                                  ![page_id].chapter_id = target_ch_id]
                         ELSE lib_pages
                    /\ pc' = IF raised2 THEN "direct_raised"
                             ELSE IF last THEN "direct_book"
                             ELSE "direct_page"
                    /\ error' = IF raised2 THEN Raise("direct", "PUT /pages/{id}")
                                ELSE NoError
                    /\ direct' = [direct EXCEPT
                          !.last = step,
                          !.inbox_id = inbox_id,
                          !.assigned = @ + Raised(matched),
                          !.inbox_created =
                              @ + Raised(ensured /\ e.ret # -1),
                          !.inboxed = @ + Raised(~matched),
                          !.moved = @ + Raised(target_ch_id # 0),
                          !.samples =
                              IF target_ch_id = 0 \/ raised2 THEN @
                              ELSE Append(@, [book_id |-> bid,
                                              page_id |-> page_id,
                                              chapter_id |-> target_ch_id,
                                              reason |-> found.reason,
                                              inbox |-> ~matched]),
                          !.pages = IF raised2 THEN @ ELSE Tail(@),
                          !.book_ids = IF last /\ ~raised2 THEN Tail(@)
                                       ELSE @]
    /\ UNCHANGED <<apply, run, report, at_start>>
    /\ UNCHANGED outsideDirect

\* Lines 715-718 and 735-740 of main: the report is written.
DirectWriteReport ==
    /\ pc = "direct_report"
    /\ report' = [written |-> TRUE, apply |-> apply,
                  direct_pages |-> [moved |-> direct.moved,
                                    assigned |-> direct.assigned,
                                    inboxed |-> direct.inboxed,
                                    inbox_created |-> direct.inbox_created,
                                    samples |-> direct.samples]]
    /\ pc' = "direct_done"
    /\ UNCHANGED <<chapters, lib_pages, apply, run, failures, requests,
                   at_start, error, direct>>
    /\ UNCHANGED outsideDirect

DirectNext ==
    \/ \E a \in BOOLEAN : DirectStart(a)
    \/ DirectReadBook
    \/ DirectPage
    \/ DirectWriteReport

SpecDirect == DirectInit /\ [][DirectNext]_vars

\* ----------------------------------------------------- seed-empty-books
\* "Start Here"
NameStartHere == <<"S", "t", "a", "r", "t", " ", "H", "e", "r", "e">>
\* "start here ", as a chapter of the server may be named
NameStartHereOnServer ==
    <<"s", "t", "a", "r", "t", " ", "h", "e", "r", "e", " ">>
\* "OVERVIEW", as a page of the server may be named
TitleOverviewOnServer == <<"O", "V", "E", "R", "V", "I", "E", "W">>

ChapterPlan(name, pages) == [name |-> name, pages |-> pages]

\* build_plan_for_book: two chapters, the first with two pages.
SeedPlan ==
    <<ChapterPlan(NameStartHere, <<TitleOverview, TitleNewPage>>),
      ChapterPlan(NameOverview, <<TitleOverview>>)>>

\* read_empty_books_from_hierarchy: the books the hierarchy file lists as
\* empty, which they may no longer be.
SeedBooks == <<1, 2>>

\* What book 1 holds by now: nothing, a chapter of the plan, or that
\* chapter with a page of the plan in it.
SeedRemotes ==
    { [chapters |-> <<>>, pages |-> EmptyMap],
      [chapters |-> <<Ch(11, 1, NameStartHereOnServer)>>,
       pages |-> EmptyMap],
      [chapters |-> <<Ch(11, 1, NameStartHereOnServer)>>,
       pages |-> (1 :> Page(TitleOverviewOnServer, 1, 11, <<>>))] }

\* str(name).strip().lower() == other.strip().lower()
LowerAll(s) == [k \in 1..Len(s) |-> Lower(s[k])]
SameName(a, b) == LowerAll(Strip(a)) = LowerAll(Strip(b))

\* find_chapter_by_name on the contents of GET /books/{id}: the id of the
\* first chapter of the book with the name, 0 for None.
find_chapter_by_name(chs, book_id, name) ==
    LET found == {k \in 1..Len(chs) :
                     chs[k].book_id = book_id /\ SameName(chs[k].name, name)}
    IN  IF found = {} THEN 0 ELSE chs[Min(found)].id

\* ensure_chapter(api, book_id, name, description, dry_run) of
\* seed-empty-books. failAt: the request of the call that raises.
seed_ensure_chapter(chs, book_id, name, dry_run, failAt) ==
    LET get == Request("GET", "/books", book_id, NoBody)
        post == Request("POST", "/chapters", 0,
                        [book_id |-> book_id, name |-> name])
        existing == find_chapter_by_name(chs, book_id, name)
        ch_id == NewChapterId(chs)
    IN  IF failAt = 1
        THEN [raised |-> TRUE, ret |-> 0, chapters |-> chs, reqs |-> <<get>>]
        ELSE IF existing # 0
        THEN [raised |-> FALSE, ret |-> existing, chapters |-> chs,
              reqs |-> <<get>>]
        ELSE IF dry_run
        THEN [raised |-> FALSE, ret |-> -1, chapters |-> chs,
              reqs |-> <<get>>]
        ELSE IF failAt = 2
        THEN [raised |-> TRUE, ret |-> 0, chapters |-> chs,
              reqs |-> <<get, post>>]
        ELSE [raised |-> FALSE, ret |-> ch_id,
              chapters |-> Append(chs, Ch(ch_id, book_id, name)),
              reqs |-> <<get, post>>]

\* page_exists_in_chapter that never finds the page.
page_exists_in_chapter_Never(pages, chapter_id, page_name) == FALSE

\* page_exists_in_chapter on the pages of GET /chapters/{id}.
page_exists_in_chapter(pages, chapter_id, page_name) ==
    \E p \in DOMAIN pages :
        pages[p].chapter_id = chapter_id /\ SameName(pages[p].name, page_name)

NewPageId(pages) == Max({0} \cup DOMAIN pages) + 1

\* create_page_in_chapter(api, chapter_id, plan, dry_run); ret is the new
\* page id, 0 for None.
create_page_in_chapter(pages, chs, chapter_id, page_name, dry_run, failAt) ==
    LET get == Request("GET", "/chapters", chapter_id, NoBody)
        post == Request("POST", "/pages", 0,
                        [chapter_id |-> chapter_id, name |-> page_name])
        new_id == NewPageId(pages)
        book_id == (CHOOSE c \in Range(chs) : c.id = chapter_id).book_id
    IN  IF chapter_id <= 0
        THEN [raised |-> FALSE, ret |-> 0, pages |-> pages, reqs |-> <<>>]
        ELSE IF failAt = 1
        THEN [raised |-> TRUE, ret |-> 0, pages |-> pages, reqs |-> <<get>>]
        ELSE IF page_exists_in_chapter(pages, chapter_id, page_name)
        THEN [raised |-> FALSE, ret |-> 0, pages |-> pages, reqs |-> <<get>>]
        ELSE IF dry_run
        THEN [raised |-> FALSE, ret |-> 0, pages |-> pages, reqs |-> <<get>>]
        ELSE IF failAt = 2
        THEN [raised |-> TRUE, ret |-> 0, pages |-> pages,
              reqs |-> <<get, post>>]
        ELSE [raised |-> FALSE, ret |-> new_id,
              pages |-> pages @@
                        (new_id :> Page(page_name, book_id, chapter_id, <<>>)),
              reqs |-> <<get, post>>]

SeedFailChoices == IF failures < MaxSeedFailures THEN 0..2 ELSE {0}

SeedInit ==
    /\ \E remote \in SeedRemotes :
        /\ chapters = remote.chapters
        /\ lib_pages = remote.pages
    /\ pc = "seed_idle"
    /\ apply = FALSE
    /\ run = 0
    /\ report = NoReport
    /\ failures = 0
    /\ requests = <<>>
    /\ at_start = [chapters |-> chapters, pages |-> lib_pages]
    /\ seed = NoSeed
    /\ shelves = <<>>
    /\ books = <<>>
    /\ holding_book_id = 0
    /\ sweep = NoSweep
    /\ junk = NoJunk
    /\ attempts = <<>>
    /\ classified = EmptyMap
    /\ error = NoError
    /\ InboxUnused
    /\ ClassifyUnused
    /\ ClientUnused
    /\ DirectUnused
    /\ ShelveUnused

\* What the actions of seed-empty-books leave alone.
outsideSeed == <<shelves, books, holding_book_id, sweep, junk, attempts,
                 classified, error, report, inboxVars, classifyVars,
                 clientVars, directVars, shelveVars>>

\* main up to line 1377: the mode is read and the empty books are listed.
SeedStart(a) ==
    /\ pc \in {"seed_idle", "seed_done"}
    /\ run < MaxSeedRuns
    /\ run' = run + 1
    /\ apply' = a
    /\ at_start' = [chapters |-> chapters, pages |-> lib_pages]
    /\ requests' = <<>>
    /\ seed' = [NoSeed EXCEPT
          !.books = SeedBooks, !.plan = SeedPlan,
          !.failed_before = failures,
          !.prev = [ended |-> pc = "seed_done", apply |-> apply,
                    failed |-> failures > seed.failed_before]]
    /\ pc' = "seed_chapter"
    /\ UNCHANGED <<chapters, lib_pages, failures>>
    /\ UNCHANGED outsideSeed

\* One iteration of "for ch_plan in plan" up to line 1392, the step to the
\* next book, or the end of main.
SeedChapter ==
    /\ pc = "seed_chapter"
    /\ IF seed.books = <<>>
       THEN /\ pc' = "seed_done"
            /\ UNCHANGED <<seed, chapters, requests, failures>>
       ELSE IF seed.plan = <<>>
       THEN /\ seed' = [seed EXCEPT !.books = Tail(@), !.plan = SeedPlan]
            /\ UNCHANGED <<pc, chapters, requests, failures>>
       ELSE \E failAt \in SeedFailChoices :
            LET book_id == Head(seed.books)
                ch_plan == Head(seed.plan)
                r == seed_ensure_chapter(chapters, book_id, ch_plan.name,
                                         ~apply, failAt)
                skip == r.raised \/ r.ret = -1 \/ ch_plan.pages = <<>>
                step == [called |-> TRUE, call |-> "ensure_chapter",
                         book_id |-> book_id, name |-> ch_plan.name,
                         raised |-> r.raised, ret |-> r.ret,
                         pages |-> ch_plan.pages, reqs |-> r.reqs]
            IN  /\ (failAt > 0) => (r.raised /\ Len(r.reqs) = failAt)
                /\ chapters' = r.chapters
                /\ requests' = requests \o r.reqs
                /\ failures' = failures + Raised(r.raised)
                /\ pc' = IF skip THEN "seed_chapter" ELSE "seed_page"
                /\ seed' = [seed EXCEPT
                      !.last = step,
                      !.ch_id = IF r.raised THEN 0 ELSE r.ret,
                      !.pages = IF skip THEN <<>> ELSE ch_plan.pages,
                      !.plan = IF skip THEN Tail(@) ELSE @]
    /\ UNCHANGED <<lib_pages, apply, run, at_start>>
    /\ UNCHANGED outsideSeed

\* One iteration of "for p_plan in ch_plan.pages" (lines 1394-1402), and
\* line 1404 after the last.
SeedPage ==
    /\ pc = "seed_page"
    /\ \E failAt \in SeedFailChoices :
        LET page_name == Head(seed.pages)
            r == create_page_in_chapter(lib_pages, chapters, seed.ch_id,
                                        page_name, ~apply, failAt)
            last == Len(seed.pages) = 1
            step == [called |-> TRUE, call |-> "create_page_in_chapter",
                     chapter_id |-> seed.ch_id, name |-> page_name,
                     raised |-> r.raised, ret |-> r.ret, reqs |-> r.reqs]
        IN  /\ (failAt > 0) => (r.raised /\ Len(r.reqs) = failAt)
            /\ lib_pages' = r.pages
            /\ requests' = requests \o r.reqs
            /\ failures' = failures + Raised(r.raised)
            /\ pc' = IF last THEN "seed_chapter" ELSE "seed_page"
            /\ seed' = [seed EXCEPT
                  !.last = step,
                  !.pages_created = @ + Raised(r.ret # 0),
                  !.pages = Tail(@),
                  !.plan = IF last THEN Tail(@) ELSE @]
    /\ UNCHANGED <<chapters, apply, run, at_start>>
    /\ UNCHANGED outsideSeed

SeedNext ==
    \/ \E a \in BOOLEAN : SeedStart(a)
    \/ SeedChapter
    \/ SeedPage

SpecSeed == SeedInit /\ [][SeedNext]_vars

\* ------------------------------------------------ the three driving loops
\* organize-inbox, move_direct_pages or seed-empty-books, each from its
\* own initial state.
DriversInit == InboxInit \/ DirectInit \/ SeedInit
DriversNext == InboxNext \/ DirectNext \/ SeedNext
SpecDrivers == DriversInit /\ [][DriversNext]_vars

\* ------------------------------------ the three driving loops: properties
\* The entry main appends for an assignment whose chapter is yet to be
\* created.
PendingCreation(pid) ==
    [page_id |-> pid, to |-> "(create chapter)", note |-> "dry-run"]
\* The chapter a request names as the new home of a page, 1 if none.
CarriedChapter(r) ==
    IF r.body # NoBody /\ "chapter_id" \in DOMAIN r.body
    THEN r.body.chapter_id ELSE 1
\* The assignments the move loop of organize-inbox has gone through whose
\* resolved chapter is the sentinel.
SentinelEntries ==
    {k \in 1..Len(moves) :
        resolved_targets[SortedSeq(DOMAIN resolved_targets)[k]] = -1}

\* C12: the dry-run sentinel -1 is never used in a request: no request
\* names chapter -1 as the target of a move or a create, and none addresses
\* chapter -1. In the move loop of organize-inbox an assignment resolved to
\* -1 gets the pending-creation entry, no request for its page, and counts
\* in skipped, never in moved. In move_direct_pages a page whose inbox came
\* back as -1 has no target, no request, no sample and stays where it is.
\* In seed-empty-books a chapter that came back as -1 has none of its pages
\* handed to create_page_in_chapter.
C12_SentinelNeverWritten ==
    /\ \A k \in 1..Len(requests) :
          /\ CarriedChapter(requests[k]) > 0
          /\ requests[k].id >= 0
    /\ \A k \in SentinelEntries :
          LET pid == SortedSeq(DOMAIN resolved_targets)[k]
          IN  /\ moves[k] = PendingCreation(pid)
              /\ ~apply
              /\ \A j \in 1..Len(requests) :
                    ~(requests[j].path = "/pages" /\ requests[j].id = pid)
    /\ skipped >= Cardinality(SentinelEntries)
    /\ moved <= Len(moves) - Cardinality(SentinelEntries)
    /\ \A k \in 1..Len(direct.samples) : direct.samples[k].chapter_id > 0
    /\ direct.moved <= Len(direct.samples) + 1
    /\ (direct.last.called /\ direct.last.ensured /\ direct.last.ret = -1) =>
          /\ ~apply
          /\ direct.last.target = 0
          /\ direct.last.reqs = <<>>
          /\ direct.inbox_id = 0
          /\ lib_pages[direct.last.page_id].chapter_id = 0
          /\ \A k \in 1..Len(direct.samples) :
                direct.samples[k].page_id # direct.last.page_id
    /\ (seed.last.called /\ seed.last.call = "ensure_chapter"
        /\ seed.last.ret = -1) =>
          /\ ~apply
          /\ pc \in {"seed_chapter", "seed_done"}
          /\ seed.pages = <<>>
    /\ (seed.last.called /\ seed.last.call = "create_page_in_chapter") =>
          seed.last.chapter_id > 0

\* A dry-run of organize-inbox has ended with an assignment recorded as
\* pending creation and counted in skipped.
C12_Witness ==
    /\ pc = "done"
    /\ ~apply
    /\ SentinelEntries # {}
    /\ \E k \in SentinelEntries : moves[k].to = "(create chapter)"
    /\ skipped = Cardinality(SentinelEntries)
    /\ report.written

\* move_direct_pages has passed a page whose inbox does not exist yet.
DirectSentinelCase ==
    /\ direct.last.called /\ direct.last.ensured /\ direct.last.ret = -1
    /\ pc = "direct_done"

\* seed-empty-books has passed a chapter that does not exist yet.
SeedSentinelCase ==
    /\ seed.last.called /\ seed.last.call = "ensure_chapter"
    /\ seed.last.ret = -1
    /\ pc = "seed_done"

\* ------------------------------------ organize-library: the retry of the sweep
\* The relocation requests this run has sent for a container.
PutsFor(ch_id) ==
    SelectSeq(requests, LAMBDA r : /\ r.method = "PUT"
                                   /\ r.path = "/chapters"
                                   /\ r.id = ch_id)
AttemptsFor(ch_id) ==
    {k \in 1..Len(attempts) : attempts[k].chapter_id = ch_id}
NameOf(chs, ch_id) ==
    (CHOOSE c \in Range(chs) : c.id = ch_id).name
BookOf(chs, ch_id) ==
    (CHOOSE c \in Range(chs) : c.id = ch_id).book_id

\* C25: in an apply-mode sweep a container whose direct relocation failed
\* gets exactly one retry, which carries the name "[From <id>] <name>" with
\* the identity of the book the container was in; no container gets more
\* than two relocation requests in a sweep; a container whose direct
\* relocation succeeded gets no second request and keeps its name.
C25_FailedRelocateIsRetriedOnceWithTag ==
    apply =>
        \A c \in Range(at_start.chapters) :
            LET puts == PutsFor(c.id)
                to_holding == [book_id |-> holding_book_id]
            IN  /\ Len(puts) <= 2
                /\ Cardinality(AttemptsFor(c.id)) <= 1
                /\ AttemptsFor(c.id) = {} => puts = <<>>
                /\ \A k \in AttemptsFor(c.id) :
                    /\ attempts[k].book_id = c.book_id
                    /\ attempts[k].direct = "ok" =>
                          /\ attempts[k].retry = "none"
                          /\ puts = <<Request("PUT", "/chapters", c.id,
                                              to_holding)>>
                          /\ NameOf(chapters, c.id) = c.name
                          /\ BookOf(chapters, c.id) = holding_book_id
                    /\ attempts[k].direct = "failed" =>
                          /\ attempts[k].retry \in {"ok", "failed"}
                          /\ Len(puts) = 2
                          /\ puts[1].body = to_holding
                          /\ puts[2].body =
                                [book_id |-> holding_book_id,
                                 name |-> "[From " \o ToString(c.book_id)
                                          \o "] " \o c.name]
                          /\ attempts[k].retry = "ok" =>
                                /\ NameOf(chapters, c.id) = puts[2].body.name
                                /\ BookOf(chapters, c.id) = holding_book_id
                          /\ attempts[k].retry = "failed" =>
                                /\ NameOf(chapters, c.id) = c.name
                                /\ BookOf(chapters, c.id) = c.book_id

\* An apply-mode sweep has returned: the direct relocation of one container
\* succeeded, that of another failed and its retry put it in the holding
\* book under the tagged name.
C25_Witness ==
    /\ apply
    /\ SweepReturned
    /\ \E j, k \in 1..Len(attempts) :
        /\ attempts[j].direct = "ok"
        /\ attempts[k].direct = "failed"
        /\ attempts[k].retry = "ok"
        /\ Len(PutsFor(attempts[j].chapter_id)) = 1
        /\ Len(PutsFor(attempts[k].chapter_id)) = 2
        /\ NameOf(chapters, attempts[k].chapter_id) #
              NameOf(at_start.chapters, attempts[k].chapter_id)
        /\ BookOf(chapters, attempts[k].chapter_id) = holding_book_id

\* ------------------------------------ organize-library: the empty-page test
\* The stripped plain text of a page as it was when the run began.
StrippedText(pid) == strip_html_to_text(Strip(RawOf(at_start.pages[pid])))

ClassifiedLength(n) ==
    \E p \in DOMAIN classified : Len(StrippedText(p)) = n
ClassifiedBlank == ClassifiedLength(0)
ClassifiedHeading == ClassifiedLength(10)
ClassifiedLong == ClassifiedLength(45)

\* ------------------------------------ organize-library: the junk detector
\* The pages whose title is exactly one of the junk names when the run
\* began.
JunkMatches ==
    {p \in DOMAIN at_start.pages :
        \E k \in 1..Len(JunkNames) : at_start.pages[p].name = JunkNames[k]}
DeletesOf(pid) ==
    Cardinality({k \in 1..Len(requests) : /\ requests[k].method = "DELETE"
                                          /\ requests[k].id = pid})
EntriesOf(entries, pid) == {k \in 1..Len(entries) : entries[k].id = pid}
\* delete_junk_pages has returned its result to main.
JunkReturned == pc \in {"report", "done"}

\* C27: in apply mode there is exactly one delete request for each page
\* with a junk title that was classified empty, and none for any other
\* page or in a dry-run; in either mode each page classified is in exactly
\* one of the lists deleted and kept, once, with its empty flag: the empty
\* ones in deleted, the others in kept; and when delete_junk_pages returns
\* the pages classified are the pages whose title is exactly a junk name.
C27_OneDeletePerEmptyMatchAndOneEntryPerMatch ==
    /\ \A pid \in DOMAIN at_start.pages :
          DeletesOf(pid) =
              IF apply /\ pid \in DOMAIN classified /\ classified[pid]
              THEN 1 ELSE 0
    /\ DOMAIN classified \subseteq JunkMatches
    /\ EntryIds(junk.deleted) \cup EntryIds(junk.kept) \subseteq
          DOMAIN classified
    /\ pc # "raised" =>
          \A pid \in DOMAIN classified :
              LET d == EntriesOf(junk.deleted, pid)
                  k == EntriesOf(junk.kept, pid)
              IN  /\ Cardinality(d) + Cardinality(k) = 1
                  /\ \A j \in d : /\ classified[pid]
                                  /\ junk.deleted[j].empty = TRUE
                  /\ \A j \in k : /\ ~classified[pid]
                                  /\ junk.kept[j].empty = FALSE
    /\ JunkReturned => DOMAIN classified = JunkMatches

\* An apply run of delete_junk_pages has returned with three matches: two
\* classified empty, each deleted by one request, and one kept; the page
\* whose title only contains a junk name is in neither list.
C27_Witness ==
    /\ apply
    /\ JunkReturned
    /\ Cardinality(JunkMatches) = 3
    /\ Len(junk.deleted) = 2
    /\ Len(junk.kept) = 1
    /\ \A k \in 1..2 : DeletesOf(junk.deleted[k].id) = 1
    /\ 3 \notin DOMAIN classified

\* A dry-run has returned with an empty match in deleted and no delete
\* request.
DryRunListsEmptyMatch ==
    /\ ~apply
    /\ JunkReturned
    /\ Len(junk.deleted) = 2
    /\ DeleteRequests = {}

\* ------------------------------------- organize-inbox: the order of the moves
\* The pages move_page has fetched in this run, in the order of the calls.
PagesFetched ==
    LET gets == SelectSeq(requests, LAMBDA r : /\ r.method = "GET"
                                               /\ r.path = "/pages")
    IN  [k \in 1..Len(gets) |-> gets[k].id]
Ascending(ids) == \A i, j \in 1..Len(ids) : i < j => ids[i] < ids[j]

\* C28: within a run move_page is called, and the report entries are
\* appended, in ascending order of the page ids, whatever the order in
\* which the catalog was filled; a run that reaches the report has one
\* entry for each page of the catalog; and a run that ends with a report
\* after a run that ended with a report, in the same mode and from the
\* same remote state, reports the same list of entries.
C28_MovesInAscendingPageOrder ==
    /\ Ascending(PagesFetched)
    /\ Ascending([k \in 1..Len(moves) |-> moves[k].page_id])
    /\ pc \in {"report", "done"} =>
          [k \in 1..Len(moves) |-> moves[k].page_id] = SortedSeq(Pages)
    /\ (/\ pc = "done"
        /\ prev.outcome = "done"
        /\ prev.apply = apply
        /\ prev.same_remote) => report.moves = prev.moves

\* The catalog was filled with the later page first; a second run has ended
\* with a report, from the remote state and in the mode of the first, and
\* move_page was called for every page, the earlier page first.
C28_Witness ==
    /\ order[1] > order[2]
    /\ pc = "done"
    /\ prev.outcome = "done"
    /\ prev.apply = apply
    /\ prev.same_remote
    /\ PagesFetched = SortedSeq(Pages)
    /\ report.moves = prev.moves
    /\ report.moves[1].page_id = 1

\* ------------------------------------- organize-inbox: interrupted runs
\* Lines 509-514 of an apply run in which no request fails, from the k-th
\* assignment on: the chapters and resolved_targets at the end.
RECURSIVE ResolveFrom(_, _, _, _)
ResolveFrom(k, cache, chs, res) ==
    IF k > NPages THEN [chapters |-> chs, resolved |-> res]
    ELSE LET pid == order[k]
             t == targets[pid]
             r == IF t.kind = "id"
                  THEN [ret |-> t.id, cache |-> cache, chapters |-> chs]
                  ELSE ensure_chapter(cache, chs, t, TRUE, 0)
         IN  ResolveFrom(k + 1, r.cache, r.chapters, res @@ (pid :> r.ret))

\* Lines 520-532 of that run from the k-th page on: the pages at the end,
\* or raised when the server refuses a move.
RECURSIVE MoveFrom(_, _, _, _)
MoveFrom(k, pch, chs, res) ==
    IF k > NPages THEN [raised |-> FALSE, pages |-> pch]
    ELSE LET pid == MoveOrder(order, DOMAIN res)[k]
             r == move_page(pch, chs, pid, res[pid], TRUE, 0)
         IN  IF r.raised THEN [raised |-> TRUE, pages |-> r.pages]
             ELSE MoveFrom(k + 1, r.pages, chs, res)

\* The remote state an apply run that nothing interrupts ends in.
Uninterrupted(remote) ==
    LET a == ResolveFrom(1, EmptyMap, remote.chapters, EmptyMap)
        b == MoveFrom(1, remote.page_chapter, a.chapters, a.resolved)
    IN  [raised |-> b.raised, chapters |-> a.chapters,
         page_chapter |-> b.pages]

\* The chapters of a book with a name.
Named(chs, spec) ==
    {k \in 1..Len(chs) : /\ chs[k].book_id = spec.book_id
                         /\ chs[k].name = spec.name}
\* An apply run ended at a failed request and the apply run after it has
\* ended with its report.
Resumed ==
    /\ pc = "done" /\ apply
    /\ prev.outcome = "raised" /\ prev.apply

\* C29: when an apply run ends at a failed request, after whatever requests
\* it had completed, and the apply run that follows ends with its report,
\* the chapter of every page and the chapters of every book are those an
\* apply run from the first run's remote state ends with when nothing
\* interrupts it; no chapter name of the catalog is in its book more often
\* than before, or more than once if it was not there.
C29_ResumedRunEndsLikeUninterruptedRun ==
    Resumed =>
        LET u == Uninterrupted(prev.at_start)
        IN  /\ ~u.raised
            /\ page_chapter = u.page_chapter
            /\ chapters = u.chapters
            /\ \A t \in Specs :
                  Cardinality(Named(chapters, t)) <=
                      Max({1, Cardinality(Named(prev.at_start.chapters, t))})

\* The first apply run created a chapter and ended at a failed request
\* before every page was moved; the run after it found that chapter,
\* moved the pages and ended with its report.
C29_Witness ==
    /\ Resumed
    /\ Len(at_start.chapters) > Len(prev.at_start.chapters)
    /\ chapters = at_start.chapters
    /\ page_chapter # at_start.page_chapter
    /\ \E p \in Pages : targets[p].kind = "spec"

\* The first run ended after it had moved a page and before it moved the
\* next.
ResumedAfterMove ==
    /\ Resumed
    /\ at_start.page_chapter # prev.at_start.page_chapter
    /\ page_chapter # at_start.page_chapter

\* ------------------------------------------ seed-empty-books: idempotence
\* The create requests of this run.
SeedCreates == SelectSeq(requests, LAMBDA r : r.method = "POST")
\* This is an apply run that follows an apply run that reached the end of
\* main.
SecondApplyRun == apply /\ seed.prev.ended /\ seed.prev.apply
\* No book holds two chapters, and no chapter two pages, whose names are
\* the same once trimmed and lower-cased.
NoNameTwice ==
    /\ \A i, j \in 1..Len(chapters) :
          (i # j /\ chapters[i].book_id = chapters[j].book_id) =>
              ~SameName(chapters[i].name, chapters[j].name)
    /\ \A p, q \in DOMAIN lib_pages :
          (p # q /\ lib_pages[p].chapter_id = lib_pages[q].chapter_id) =>
              ~SameName(lib_pages[p].name, lib_pages[q].name)

SecondRunCreatesWhatFailed ==
    /\ SecondApplyRun
    /\ seed.prev.failed
    /\ pc = "seed_done"
    /\ SeedCreates # <<>>
    /\ Len(chapters) = 4
    /\ Cardinality(DOMAIN lib_pages) = 6

\* ------------------------------------ organize-library: what the sweep takes
\* C31: the sweep attempts only containers that had no page and were outside
\* the holding book when the run began, and when it returns it has attempted
\* every one of them; a container with a page, or inside the holding book,
\* gets no relocation request and keeps its book and its name, so that an
\* apply-mode sweep leaves alone what an earlier sweep has moved.
C31_SweepTakesOnlyEmptyContainersOutsideHolding ==
    /\ Range(ChapterIds(attempts)) \subseteq Qualifying
    /\ SweepReturned => Range(ChapterIds(attempts)) = Qualifying
    /\ holding_book_id # 0 =>
          \A c \in Range(at_start.chapters) :
              (\/ ChapterPages(at_start.pages, c.id) # {}
               \/ c.book_id = holding_book_id) =>
                  /\ PutsFor(c.id) = <<>>
                  /\ c \in Range(chapters)

\* A second run, in apply mode, has swept: a container that began outside
\* the holding book was in it when this run began and got no request, and
\* the container with pages is still in its book.
C31_Witness ==
    /\ run = 2
    /\ apply
    /\ SweepReturned
    /\ \E c \in Range(at_start.chapters) :
          /\ c.id \in {11, 13, 21}
          /\ c.book_id = holding_book_id
          /\ PutsFor(c.id) = <<>>
    /\ \E c \in Range(chapters) :
          /\ c.id = 12
          /\ c.book_id = 1
          /\ ChapterPages(lib_pages, 12) # {}

\* ---------------------------------- organize-library: the inbox fallback
\* The pages that sat directly in a book when the run began.
DirectAtStart == {p \in DOMAIN at_start.pages : at_start.pages[p].chapter_id = 0}
\* What the classifier returns for such a page and the chapters of its book.
ChoiceFor(p) ==
    best_chapter_for_page(
        at_start.pages[p].name,
        Candidates(BookChapters(at_start.chapters, at_start.pages[p].book_id)))
\* The inbox chapters of a book.
InboxesOf(chs, bid) ==
    {k \in 1..Len(chs) : /\ chs[k].book_id = bid
                         /\ chs[k].name = INBOX_CHAPTER_NAME}
\* The create requests of this run for the inbox of a book.
InboxCreates(bid) ==
    {k \in 1..Len(requests) :
        /\ requests[k].method = "POST"
        /\ requests[k].body = [book_id |-> bid, name |-> INBOX_CHAPTER_NAME]}
\* move_direct_pages has returned its result to main.
DirectReturned == pc \in {"direct_report", "direct_done"}

\* C32: a page without a match never makes move_direct_pages raise: only a
\* failed request does. When an apply-mode call returns, every page that
\* sat directly in a book is in one chapter of that book: the classifier's
\* choice when there is one, the book's inbox otherwise. In a run there is
\* at most one create request for the inbox of a book, and only for a book
\* without an inbox that holds a direct page without a match; a dry-run
\* sends none.
C32_UnmatchedPagesGoToTheInbox ==
    /\ pc = "direct_raised" =>
          /\ failures > 0
          /\ error.call \in {"GET /books", "GET /books/{id}",
                             "POST /chapters", "PUT /pages/{id}"}
    /\ (apply /\ DirectReturned) =>
          \A p \in DirectAtStart :
              LET bid == at_start.pages[p].book_id
                  choice == ChoiceFor(p).id
              IN  /\ lib_pages[p].book_id = bid
                  /\ lib_pages[p].chapter_id # 0
                  /\ choice # 0 => lib_pages[p].chapter_id = choice
                  /\ choice = 0 =>
                        /\ InboxesOf(chapters, bid) # {}
                        /\ lib_pages[p].chapter_id =
                              chapters[Min(InboxesOf(chapters, bid))].id
    /\ \A b \in Range(at_start.books) :
          /\ Cardinality(InboxCreates(b.id)) <= 1
          /\ InboxCreates(b.id) # {} =>
                /\ apply
                /\ InboxesOf(at_start.chapters, b.id) = {}
                /\ \E p \in DirectAtStart :
                      /\ at_start.pages[p].book_id = b.id
                      /\ ChoiceFor(p).id = 0
          /\ Cardinality(InboxesOf(chapters, b.id)) <=
                Max({1, Cardinality(InboxesOf(at_start.chapters, b.id))})

\* An apply-mode call has returned: one page of book 1 is in the chapter
\* the classifier chose, the other, without a match, in the inbox that one
\* create request made; book 2 had its inbox and got no create request.
C32_Witness ==
    /\ apply
    /\ DirectReturned
    /\ ChoiceFor(1).id = 11 /\ lib_pages[1].chapter_id = 11
    /\ ChoiceFor(2).id = 0
    /\ InboxesOf(at_start.chapters, 1) = {}
    /\ Cardinality(InboxCreates(1)) = 1
    /\ lib_pages[2].chapter_id = chapters[Min(InboxesOf(chapters, 1))].id
    /\ InboxCreates(2) = {}
    /\ lib_pages[3].chapter_id = 22

\* Both direct pages of book 1 are without a match and the inbox made for
\* the first has taken the second.
OneInboxForTwoPages ==
    /\ apply
    /\ DirectReturned
    /\ ChoiceFor(1).id = 0 /\ ChoiceFor(2).id = 0
    /\ Cardinality(InboxCreates(1)) = 1
    /\ lib_pages[1].chapter_id = lib_pages[2].chapter_id

\* C33: when move_direct_pages returns, inbox_created is the number of
\* create requests for an inbox sent in the run: 0 in a dry-run, and
\* nothing for a book whose inbox was there already. (Line 516 counts
\* every inbox that ensure_inbox_chapter returns, found or created, so
\* this does not hold.)
C33_InboxCreatedCountsCreateRequests ==
    DirectReturned =>
        /\ direct.inbox_created =
              Cardinality({k \in 1..Len(requests) :
                              requests[k].method = "POST"})
        /\ ~apply => direct.inbox_created = 0

\* ------------------------------------- BookStackApi.request: the backoff
\* C34: without a delay of the server that can be used (no Retry-After, one
\* that is not an integer, zero or a negative number) the wait after the
\* k-th attempt, k = 1..4, is 2, 4, 8, 16 after a 429 (min(60, 2^k)) and
\* 1, 2, 4, 8 after a 5xx (min(30, 2^(k-1))); the waits do not decrease
\* with k and stay within 60 after a 429 and within 30 after a 5xx.
C34_BackoffTable ==
    /\ (slept.why = "429" /\ last_resp.retry_after \notin DOMAIN AskedSeconds) =>
          /\ attempt - 1 \in 1..4
          /\ slept.seconds = <<2, 4, 8, 16>>[attempt - 1]
          /\ slept.seconds <= 60
    /\ slept.why = "5xx" =>
          /\ attempt - 1 \in 1..4
          /\ slept.seconds = <<1, 2, 4, 8>>[attempt - 1]
          /\ slept.seconds <= 30
    /\ \A k \in 1..3 :
          /\ RateLimitDelay(<<>>, k) <= RateLimitDelay(<<>>, k + 1)
          /\ ServerErrorDelay(k) <= ServerErrorDelay(k + 1)

\* The fourth attempt of a call was answered by a 5xx and the client has
\* waited 8 seconds; the attempts before it were answered likewise.
C34_Witness ==
    /\ slept = [seconds |-> 8, why |-> "5xx"]
    /\ attempt = 5
    /\ last_resp.status \in 500..599
    /\ api_call.state = "running"

\* The fourth attempt was answered by a 429 whose Retry-After cannot be
\* used, and the client has waited 16 seconds.
LongestBackoff429 ==
    /\ slept = [seconds |-> 16, why |-> "429"]
    /\ attempt = 5
    /\ last_resp.retry_after \in {<<"0">>, <<"-", "3">>, <<"1", ".", "5">>,
                                  <<"s", "o", "o", "n">>}

\* ------------------------------------ organize-library: the sweep's counts
RenamedRetry(a) == a.direct = "failed" /\ a.retry = "ok"

\* C35: when move_empty_chapters returns in apply mode, moved plus the
\* number of failures is the number of qualifying containers, renamed is
\* at most moved and is the number of containers whose direct relocation
\* failed and whose renamed retry succeeded; when it returns in a dry-run,
\* moved is the number of qualifying containers, renamed is 0 and failures
\* is empty.
C35_SweepCounts ==
    SweepReturned =>
        /\ apply =>
              /\ sweep.moved + Len(sweep.failures) = Cardinality(Qualifying)
              /\ sweep.renamed <= sweep.moved
              /\ sweep.renamed = Len(SelectSeq(attempts, RenamedRetry))
        /\ ~apply =>
              /\ sweep.moved = Cardinality(Qualifying)
              /\ sweep.renamed = 0
              /\ sweep.failures = <<>>

\* An apply-mode sweep over three qualifying containers has returned: two
\* were moved directly and one under a new name.
C35_Witness ==
    /\ apply
    /\ SweepReturned
    /\ Cardinality(Qualifying) = 3
    /\ sweep.moved = 3
    /\ sweep.renamed = 1
    /\ sweep.failures = <<>>

\* An apply-mode sweep over three qualifying containers has returned with
\* one of them in failures.
SweepCountsWithFailure ==
    /\ apply
    /\ SweepReturned
    /\ Cardinality(Qualifying) = 3
    /\ sweep.moved = 2
    /\ Len(sweep.failures) = 1

\* A dry-run sweep over three qualifying containers has returned.
DryRunSweepCounts ==
    /\ ~apply
    /\ SweepReturned
    /\ sweep.moved = 3
    /\ Cardinality(Qualifying) = 3

\* ------------------------------------- organize-inbox: names held twice
\* C36: a call of ensure_chapter for a name the book held when the run
\* began, once or several times, returns the id of the first chapter of
\* that name in the order of the book's contents and sends no create
\* request, in either mode; it raises only when the read of the book
\* fails; and the number of chapters of a name in a book never grows
\* beyond one, or beyond what it was.
C36_HeldNameResolvesToFirstChapter ==
    /\ \A k \in 1..Len(ensure_calls) :
          LET c == ensure_calls[k]
              held == Named(at_start.chapters, c.spec)
          IN  held # {} =>
                  /\ \A q \in 1..Len(c.reqs) : c.reqs[q].method = "GET"
                  /\ Returned(c) =>
                        c.ret = at_start.chapters[Min(held)].id
    /\ \A t \in Specs :
          Cardinality(Named(chapters, t)) <=
              Max({1, Cardinality(Named(at_start.chapters, t))})

\* The book held two chapters of the name, the later one with the smaller
\* id; an apply-mode call has returned the earlier one and created nothing.
C36_Witness ==
    /\ apply
    /\ \E k \in 1..Len(ensure_calls) :
          LET c == ensure_calls[k]
              held == Named(at_start.chapters, c.spec)
          IN  /\ Cardinality(held) = 2
              /\ Returned(c)
              /\ c.ret = at_start.chapters[Min(held)].id
              /\ c.ret > at_start.chapters[Max(held)].id
              /\ Named(chapters, c.spec) = held

\* ------------------------------------- organize-inbox: where the pages end
\* The page is in the chapter its assignment names.
InTarget(p) ==
    IF targets[p].kind = "id"
    THEN page_chapter[p] = targets[p].id
    ELSE \E k \in Named(chapters, targets[p]) :
            page_chapter[p] = chapters[k].id

\* C37: when an apply run has gone through the catalog (no remote call of
\* it has failed, or main would have ended with the exception), every page
\* of the catalog is in its target: the chapter with the explicit id, or a
\* chapter of the specified book with the specified name.
C37_CompletedApplyRunPlacesEveryPage ==
    (apply /\ pc \in {"report", "done"}) => \A p \in Pages : InTarget(p)

\* An apply run has ended with its report after it created a chapter and
\* moved every page, one into the created chapter and one into a chapter
\* given by its id.
C37_Witness ==
    /\ apply
    /\ pc = "done"
    /\ Len(chapters) > Len(at_start.chapters)
    /\ moved = NPages
    /\ \E p, q \in Pages :
          /\ targets[p].kind = "spec" /\ InTarget(p)
          /\ targets[q].kind = "id" /\ InTarget(q)
          /\ page_chapter[p] # page_chapter[q]

\* ------------------------------------- organize-inbox: the counts of main
IsPrefix(s, t) == Len(s) <= Len(t) /\ SubSeq(t, 1, Len(s)) = s

\* C38: at every point of a run moved + skipped is the number of entries
\* of moves; within a run moves only grows at its end, the entries it has
\* staying as they are; a run that reaches the report has one entry for
\* each assignment of the catalog, and the report carries those counts and
\* entries.
C38_OneEntryPerAssignment ==
    /\ [](/\ moved + skipped = Len(moves)
          /\ Len(moves) <= Cardinality(DOMAIN targets)
          /\ pc \in {"report", "done"} =>
                Len(moves) = Cardinality(DOMAIN targets)
          /\ pc = "done" =>
                /\ report.moves = moves
                /\ report.moved + report.skipped = Len(report.moves))
    /\ [][run' = run => IsPrefix(moves, moves')]_vars

\* A run has ended with a report of one page moved and one skipped.
C38_Witness ==
    /\ pc = "done"
    /\ report.moved = 1
    /\ report.skipped = 1
    /\ Len(report.moves) = 2

\* --------------------------------------- the classifier: overlap of one
\* The candidates after the selected one that share a token outside
\* WEAK_TOKENS with the title.
LaterStrong ==
    {k \in (Selected + 1)..Len(arg_candidates) :
        (tokenize(arg_title) \cap arg_candidates[k].tokens) \ WEAK_TOKENS # {}}

\* C39: in the lexical phase with a largest overlap of 1 the result is
\* decided by the first candidate that shares a token with the title: it is
\* (None, "low-confidence") when that token is weak and that candidate
\* when it is not, whatever the later candidates share; a later candidate
\* is never returned.
C39_FirstCandidateWithOverlapDecides ==
    (Lexical /\ MaxOverlap = 1) =>
        /\ result.id \in {0, arg_candidates[Selected].id}
        /\ result.id = 0 <=> SharedTokens \subseteq WEAK_TOKENS
        /\ result.id = 0 => result.reason = ReasonLowConfidence
        /\ \A k \in (Selected + 1)..Len(arg_candidates) :
              arg_candidates[k].id # arg_candidates[Selected].id =>
                  result.id # arg_candidates[k].id

\* The first candidate shares only a weak token with the title and a later
\* one shares a token that is not weak: nothing is returned.
C39_Witness ==
    /\ Lexical
    /\ MaxOverlap = 1
    /\ SharedTokens \subseteq WEAK_TOKENS
    /\ LaterStrong # {}
    /\ result.id = 0
    /\ result.reason = ReasonLowConfidence

\* The other way round: the first candidate shares a token that is not
\* weak, a later one a weak token, and the first is returned.
StrongBeforeWeak ==
    /\ Lexical
    /\ MaxOverlap = 1
    /\ Len(arg_candidates) = 2
    /\ Selected = 1
    /\ SharedTokens \cap WEAK_TOKENS = {}
    /\ Overlap(2) = 1
    /\ result.id = arg_candidates[1].id

\* ----------------------------------------- organize-library: shelve_books
\* Lines 393-419 and 429: book_to_shelf.get(b["name"], HOLDING_SHELF_NAME),
\* with two of the twenty-five names of the table.
book_to_shelf(name) ==
    IF name = "Job Classifications" THEN "1. Onboarding"
    ELSE IF name = "Drawing Standards" THEN "2. Standards & Procedures"
    ELSE HOLDING_SHELF_NAME

\* Line 422: {str(s["name"]): int(s["id"]) for s in shelves["data"]}; of
\* two shelves with one name the later one stays.
shelf_name_to_id(shs) ==
    [n \in {shs[k].name : k \in 1..Len(shs)} |->
        shs[Max({k \in 1..Len(shs) : shs[k].name = n})].id]

\* list_unshelved_books(api), lines 374-388: the books that are on no
\* shelf, by ascending id.
list_unshelved_books(shs, bks) ==
    LET shelved_ids == UNION {Range(shs[k].books) : k \in 1..Len(shs)}
        ids == SortedSeq({bks[k].id : k \in 1..Len(bks)} \ shelved_ids)
    IN  [k \in 1..Len(ids) |-> CHOOSE b \in Range(bks) : b.id = ids[k]]

\* The libraries shelve_books is run on: those of InitialLibrary, and each
\* of them with one more book that is on no shelf and whose name is in the
\* table, for a shelf that exists or for one that does not.
ShelveLibraries ==
    {[shelves |-> lib.shelves, books |-> extra \o lib.books] :
        lib \in InitialLibrary,
        extra \in {<<>>, <<Book(4, "Job Classifications")>>,
                   <<Book(4, "Drawing Standards")>>}}

ShelveInit ==
    /\ \E lib \in ShelveLibraries :
        /\ shelves = lib.shelves
        /\ books = lib.books
    /\ chapters = <<>>
    /\ lib_pages = EmptyMap
    /\ pc = "idle"
    /\ apply = FALSE
    /\ run = 0
    /\ report = NoReport
    /\ failures = 0
    /\ requests = <<>>
    /\ holding_book_id = 0
    /\ sweep = NoSweep
    /\ junk = NoJunk
    /\ attempts = <<>>
    /\ classified = EmptyMap
    /\ error = NoError
    /\ at_start = [shelves |-> shelves, books |-> books]
    /\ shelving = NoShelving
    /\ InboxUnused
    /\ ClassifyUnused
    /\ ClientUnused
    /\ DirectUnused
    /\ SeedUnused

\* What the actions of shelve_books leave alone.
outsideShelve == <<chapters, lib_pages, report, sweep, junk, attempts,
                   classified, inboxVars, classifyVars, clientVars,
                   directVars, seedVars>>

\* Where shelve_books goes on once a book is done: the next book, or the
\* return of line 443.
AfterShelved(unshelved) == IF unshelved = <<>> THEN "done" ELSE "shelve_book"

\* Lines 697-699 of main: shelve_books(api, apply) is called.
ShelveStart(a) ==
    /\ pc \in {"idle", "done", "raised"}
    /\ run < MaxLibRuns
    /\ run' = run + 1
    /\ apply' = a
    /\ pc' = "shelve"
    /\ requests' = <<>>
    /\ shelving' = NoShelving
    /\ error' = NoError
    /\ at_start' = [shelves |-> shelves, books |-> books]
    /\ UNCHANGED <<shelves, books, failures, holding_book_id>>
    /\ UNCHANGED outsideShelve

\* Lines 421-426: GET /shelves, then list_unshelved_books: GET /books,
\* GET /shelves and one GET /shelves/{id} for every shelf.
ShelveList ==
    /\ pc = "shelve"
    /\ \E failAt \in LibFailChoices(3 + Len(shelves)) :
        LET reqs == <<Request("GET", "/shelves", 0, NoBody),
                      Request("GET", "/books", 0, NoBody),
                      Request("GET", "/shelves", 0, NoBody)>> \o
                    [k \in 1..Len(shelves) |->
                        Request("GET", "/shelves", shelves[k].id, NoBody)]
            unshelved == list_unshelved_books(shelves, books)
        IN  /\ failures' = failures + Raised(failAt > 0)
            /\ IF failAt > 0
               THEN /\ requests' = requests \o SubSeq(reqs, 1, failAt)
                    /\ pc' = "raised"
                    /\ error' = Raise("shelving", reqs[failAt].method)
                    /\ UNCHANGED shelving
               ELSE /\ requests' = requests \o reqs
                    /\ shelving' = [NoShelving EXCEPT
                                       !.unshelved = unshelved,
                                       !.shelf_name_to_id =
                                           shelf_name_to_id(shelves)]
                    /\ pc' = AfterShelved(unshelved)
                    /\ UNCHANGED error
    /\ UNCHANGED <<shelves, books, apply, run, holding_book_id, at_start>>
    /\ UNCHANGED outsideShelve

\* Lines 428-441: one iteration of "for b in unshelved".
ShelveBook ==
    /\ pc = "shelve_book"
    /\ LET b == Head(shelving.unshelved)
           rest == Tail(shelving.unshelved)
           shelf_name == book_to_shelf(b.name)
       IN  IF shelf_name \notin DOMAIN shelving.shelf_name_to_id
           THEN /\ pc' = "raised"
                /\ error' = Raise("shelving", "Shelf not found")
                /\ UNCHANGED <<shelves, requests, failures, shelving>>
           ELSE \E failAt \in LibFailChoices(2) :
                LET shelf_id == shelving.shelf_name_to_id[shelf_name]
                    current_ids == ShelfBooks(shelves, shelf_id)
                    on_shelf == b.id \in Range(current_ids)
                    sends == ~on_shelf /\ apply
                    ids == WithBook(current_ids, b.id)
                    get == Request("GET", "/shelves", shelf_id, NoBody)
                    put == Request("PUT", "/shelves", shelf_id,
                                   [books |-> ids])
                IN  /\ failAt = 2 => sends
                    /\ failures' = failures + Raised(failAt > 0)
                    /\ requests' = requests \o
                         (IF failAt # 1 /\ sends THEN <<get, put>>
                          ELSE <<get>>)
                    /\ shelves' = IF failAt = 0 /\ sends
                                  THEN PutShelfBooks(shelves, shelf_id, ids)
                                  ELSE shelves
                    /\ IF failAt > 0
                       THEN /\ pc' = "raised"
                            /\ error' = Raise("shelving",
                                              IF failAt = 1 THEN "GET"
                                              ELSE "PUT")
                            /\ UNCHANGED shelving
                       ELSE /\ shelving' = [shelving EXCEPT
                                 !.unshelved = rest,
                                 !.actions = IF on_shelf THEN @
                                             ELSE Append(@, <<b.name,
                                                             shelf_name>>)]
                            /\ pc' = AfterShelved(rest)
                            /\ UNCHANGED error
    /\ UNCHANGED <<books, apply, run, holding_book_id, at_start>>
    /\ UNCHANGED outsideShelve

\* Lines 706-708 of main: ensure_holding_book(api) is called.
ShelveHolding ==
    /\ pc \in {"idle", "done", "raised"}
    /\ run < MaxLibRuns
    /\ run' = run + 1
    /\ at_start' = [shelves |-> shelves, books |-> books]
    /\ shelving' = NoShelving
    /\ \E failAt \in LibFailChoices(5) :
        LET r == ensure_holding_book(shelves, books, failAt)
        IN  /\ failAt > 0 => r.raised /\ Len(r.reqs) = failAt
            /\ shelves' = r.shelves
            /\ books' = r.books
            /\ requests' = r.reqs
            /\ failures' = failures + Raised(failAt > 0)
            /\ IF r.raised
               THEN /\ pc' = "raised"
                    /\ error' = Raise("holding", r.reqs[Len(r.reqs)].method)
                    /\ UNCHANGED holding_book_id
               ELSE /\ pc' = "done"
                    /\ error' = NoError
                    /\ holding_book_id' = r.ret
    /\ UNCHANGED apply
    /\ UNCHANGED outsideShelve

ShelveNext ==
    \/ \E a \in BOOLEAN : ShelveStart(a)
    \/ ShelveList
    \/ ShelveBook
    \/ ShelveHolding

SpecShelve == ShelveInit /\ [][ShelveNext]_vars

\* The requests a step issues: those of the call that starts with it, or
\* those it adds to the requests of the call that is running.
IssuedByStep ==
    IF run' # run THEN requests'
    ELSE SubSeq(requests', Len(requests) + 1, Len(requests'))

IsShelfUpdate(req) == req.method = "PUT" /\ req.path = "/shelves"

\* C40: every shelf update shelve_books or ensure_holding_book issues
\* sends a book list that holds every book the shelf had when it was read
\* for that update and exactly one more book, so no update is sent for a
\* book that is on the shelf already; and no step of these operations
\* takes a book off a shelf.
C40_ShelfUpdatesAddOneBook ==
    [][/\ \A k \in DOMAIN IssuedByStep :
            IsShelfUpdate(IssuedByStep[k]) =>
                LET read == Range(ShelfBooks(shelves, IssuedByStep[k].id))
                    sent == IssuedByStep[k].body.books
                IN  /\ read \subseteq Range(sent)
                    /\ Cardinality(Range(sent) \ read) = 1
                    /\ Len(sent) = Cardinality(read) + 1
       /\ Len(shelves') = Len(shelves)
       /\ \A k \in 1..Len(shelves) :
            /\ shelves'[k].id = shelves[k].id
            /\ Range(shelves[k].books) \subseteq Range(shelves'[k].books)
      ]_vars

\* shelve_books has put book 4 on the shelf of its name and book 2 on the
\* holding shelf, and ensure_holding_book, called after it, has created
\* the holding book and put it on the holding shelf next to book 2.
C40_Witness ==
    /\ run = 2
    /\ pc = "done"
    /\ at_start.shelves = <<Shelf(1, "1. Onboarding", <<1, 4>>),
                            Shelf(2, HOLDING_SHELF_NAME, <<2>>)>>
    /\ IsShelfUpdate(requests[Len(requests)])
    /\ requests[Len(requests)].body.books = <<2, 5>>
    /\ shelves = <<Shelf(1, "1. Onboarding", <<1, 4>>),
                   Shelf(2, HOLDING_SHELF_NAME, <<2, 5>>)>>

\* shelve_books has run in apply mode on a library whose books 2 and 4
\* were on no shelf, and has sent one update for each.
ShelvedTwoBooks ==
    /\ run = 1
    /\ pc = "done"
    /\ apply
    /\ Len(shelving.actions) = 2
    /\ Cardinality({k \in 1..Len(requests) :
                       IsShelfUpdate(requests[k])}) = 2
    /\ shelves = <<Shelf(1, "1. Onboarding", <<1, 4>>),
                   Shelf(2, HOLDING_SHELF_NAME, <<2>>)>>

\* A dry run of shelve_books lists the same two books and sends nothing.
DryRunShelvesNothing ==
    /\ run = 1
    /\ pc = "done"
    /\ ~apply
    /\ Len(shelving.actions) = 2
    /\ \A k \in 1..Len(requests) : ~IsShelfUpdate(requests[k])
    /\ shelves = at_start.shelves

=============================================================================
